---- MODULE Spec2Model ----
(***************************************************************************)
(* Model of sec_mcp/storage_v2.py: the HybridStorage in-memory blacklist   *)
(* index (unified sets, hot/cold shards, metadata maps, CIDR structures)   *)
(* and its SQLite persistence.                                             *)
(*                                                                         *)
(* Python strings are modelled as sequences of one-character strings, so   *)
(* that lower(), split(), urlparse() and int() are computed and not        *)
(* assumed.  Sources, dates and scores are atomic values.                  *)
(***************************************************************************)
EXTENDS Integers, Sequences, FiniteSets, TLC

VARIABLES
    mem,          \* the in-memory structures of one HybridStorage instance
    db,           \* the SQLite tables, each a sequence of rows in rowid order
    usePytricia,  \* self._use_pytricia
    lockHolder,   \* owner of self._lock ("none" when free)
    wpc,          \* the in-flight write of the writer thread, or Idle
    last,         \* the last completed operation and how it ended
    rd,           \* what reader threads observed during the in-flight write
    live,         \* <<kind, value>> added successfully, not removed or reloaded since
    removed,      \* values remove_entry returned True for, nothing inserted since
    budget        \* number of operations that may still be started

vars == <<mem, db, usePytricia, lockHolder, wpc, last, rd, live, removed, budget>>

----------------------------------------------------------------------------
(* Bounds *)

MaxOps == 2       \* operations in a run of Spec
MaxDeepOps == 3   \* operations in a run of SpecDomain
MaxBatch == 2     \* items in a batch
MaxConcOps == 2   \* writes in a run of SpecConc

----------------------------------------------------------------------------
(* Strings as character sequences *)

UC == <<"A","B","C","D","E","F","G","H","I","J","K","L","M",
        "N","O","P","Q","R","S","T","U","V","W","X","Y","Z">>
LC == <<"a","b","c","d","e","f","g","h","i","j","k","l","m",
        "n","o","p","q","r","s","t","u","v","w","x","y","z">>
Digits == <<"0","1","2","3","4","5","6","7","8","9">>

Min(S) == CHOOSE x \in S : \A y \in S : x <= y

IsUpper(c) == \E i \in 1..26 : UC[i] = c
IsDigit(c) == \E i \in 1..10 : Digits[i] = c

LowerChar(c) == IF IsUpper(c) THEN LC[CHOOSE i \in 1..26 : UC[i] = c] ELSE c

\* str.lower()
Lower(s) == [i \in 1..Len(s) |-> LowerChar(s[i])]

Contains(s, c) == \E i \in 1..Len(s) : s[i] = c

\* str.find(c) counted from 1; 0 when absent
Find(s, c) == IF Contains(s, c) THEN Min({i \in 1..Len(s) : s[i] = c}) ELSE 0

\* s.split(c, 1): the part before the first c (all of s without c), the part after it
Before(s, c) == IF Contains(s, c) THEN SubSeq(s, 1, Find(s, c) - 1) ELSE s
After(s, c) == IF Contains(s, c) THEN SubSeq(s, Find(s, c) + 1, Len(s)) ELSE <<>>

\* str.split(c)
RECURSIVE Split(_, _)
Split(s, c) ==
    IF Contains(s, c) THEN <<Before(s, c)>> \o Split(After(s, c), c) ELSE <<s>>

\* c.join(parts)
RECURSIVE Join(_, _)
Join(parts, c) ==
    IF Len(parts) = 0 THEN <<>>
    ELSE IF Len(parts) = 1 THEN parts[1]
    ELSE parts[1] \o <<c>> \o Join(Tail(parts), c)

\* str.rstrip(c)
RECURSIVE RStrip(_, _)
RStrip(s, c) ==
    IF Len(s) > 0 /\ s[Len(s)] = c THEN RStrip(SubSeq(s, 1, Len(s) - 1), c) ELSE s

StartsWith(s, p) == Len(s) >= Len(p) /\ SubSeq(s, 1, Len(p)) = p

IsAlpha(c) == IsUpper(c) \/ \E i \in 1..26 : LC[i] = c

----------------------------------------------------------------------------
(* urllib.parse as used by normalize_url (CPython 3.11).  Inputs are over   *)
(* letters, digits and the characters . : / ? # & = ; _ - + % and space.    *)

T_http == <<"h","t","t","p">>


\* urllib.parse.urlsplit
urlsplit(url) ==
    LET \* r2 is what follows the netloc: fragment after "#", then query after "?"
        Parts(scheme, netloc, r2) ==
            [scheme |-> scheme, netloc |-> netloc,
             path |-> Before(Before(r2, "#"), "?"),
             query |-> After(Before(r2, "#"), "?"),
             fragment |-> After(r2, "#")]
        \* r1 is what follows "scheme:"; after "//" the netloc runs to the first / ? #
        Netloc(scheme, r1) ==
            LET Cut(delim) ==
                    Parts(scheme, SubSeq(r1, 3, delim - 1), SubSeq(r1, delim, Len(r1)))
            IN IF StartsWith(r1, <<"/", "/">>)
               THEN Cut(Min({j \in 3..Len(r1) : r1[j] \in {"/", "?", "#"}}
                            \cup {Len(r1) + 1}))
               ELSE Parts(scheme, <<>>, r1)
        \* i is the position of the first ":"
        Scheme(i) ==
            IF /\ i > 1
               /\ IsAlpha(url[1])
               /\ \A j \in 1..(i - 1) : (IsAlpha(url[j]) \/ IsDigit(url[j]) \/ url[j] \in {"+", "-", "."})
            THEN Netloc(Lower(SubSeq(url, 1, i - 1)), SubSeq(url, i + 1, Len(url)))
            ELSE Netloc(<<>>, url)
    IN Scheme(Find(url, ":"))

\* urllib.parse.urlparse
urlparse(url) ==
    LET \* urllib.parse.uses_params, the schemes that can be spelled by the inputs
        uses_params == { <<>>, T_http, <<"h","t","t","p","s">>, <<"f","t","p">> }
        \* urllib.parse._splitparams: the path without its ;params
        splitparams_path(path) ==
            LET AfterSlash(lastSlash) ==
                    LET P == {j \in (lastSlash + 1)..Len(path) : path[j] = ";"}
                    IN IF P = {} THEN path ELSE SubSeq(path, 1, Min(P) - 1)
                S == {j \in 1..Len(path) : path[j] = "/"}
            IN AfterSlash(IF S = {} THEN 0 ELSE CHOOSE j \in S : \A k \in S : k <= j)
        Params(sp) ==
            IF sp.scheme \in uses_params /\ Contains(sp.path, ";")
            THEN [sp EXCEPT !.path = splitparams_path(sp.path)]
            ELSE sp
    IN Params(urlsplit(url))

\* the %XX escapes of the reserved characters of the input alphabet
Escapes ==
    << <<"/", "2", "F">>, <<":", "3", "A">>, <<"=", "3", "D">>,
       <<"?", "3", "F">>, <<"&", "2", "6">>, <<"#", "2", "3">>,
       <<"%", "2", "5">>, <<"+", "2", "B">>, <<";", "3", "B">> >>


\* urllib.parse.quote_plus
RECURSIVE quote_plus(_)
quote_plus(s) ==
    IF Len(s) = 0 THEN <<>>
    ELSE LET Enc(c, E) ==
                 IF IsAlpha(c) \/ IsDigit(c) \/ c \in {"_", ".", "-", "~"} THEN <<c>>
                 ELSE IF c = " " THEN <<"+">>
                 ELSE IF E # {} THEN <<"%", Escapes[Min(E)][2], Escapes[Min(E)][3]>>
                 ELSE <<c>>
         IN Enc(s[1], {k \in 1..Len(Escapes) : Escapes[k][1] = s[1]}) \o quote_plus(Tail(s))

\* urllib.parse.unquote applied after replace("+", " ")
RECURSIVE unquote_plus(_)
unquote_plus(s) ==
    IF Len(s) = 0 THEN <<>>
    ELSE IF s[1] = "+" THEN <<" ">> \o unquote_plus(Tail(s))
    ELSE IF s[1] = "%" /\ Len(s) >= 3
         THEN LET Dec(E) ==
                      IF E # {}
                      THEN <<Escapes[Min(E)][1]>> \o unquote_plus(SubSeq(s, 4, Len(s)))
                      ELSE <<s[1]>> \o unquote_plus(Tail(s))
              IN Dec({k \in 1..Len(Escapes) :
                          /\ Escapes[k][2] = s[2]
                          /\ LowerChar(Escapes[k][3]) = LowerChar(s[3])})
    ELSE <<s[1]>> \o unquote_plus(Tail(s))

\* urllib.parse.parse_qsl(keep_blank_values=False): the (name, value) pairs
RECURSIVE parse_qsl(_)
parse_qsl(parts) ==
    IF Len(parts) = 0 THEN <<>>
    ELSE LET Pair(nv, name, value) ==
                 IF ~Contains(nv, "=") \/ Len(value) = 0
                 THEN <<>>
                 ELSE <<[name |-> unquote_plus(name), value |-> unquote_plus(value)]>>
         IN Pair(parts[1], Before(parts[1], "="), After(parts[1], "="))
            \o parse_qsl(Tail(parts))

\* urllib.parse.parse_qs: a dict name -> list of values, in insertion order
parse_qs(query) ==
    LET Group(pairs) ==
            LET firsts == SelectSeq([i \in 1..Len(pairs) |-> i],
                                    LAMBDA i : \A j \in 1..(i - 1) : pairs[j].name # pairs[i].name)
                valuesOf(n) == LET Vals(sel) == [k \in 1..Len(sel) |-> sel[k].value]
                               IN Vals(SelectSeq(pairs, LAMBDA p : p.name = n))
            IN [k \in 1..Len(firsts) |->
                    [name |-> pairs[firsts[k]].name, values |-> valuesOf(pairs[firsts[k]].name)]]
    IN Group(parse_qsl(Split(query, "&")))

\* urllib.parse.urlencode(doseq=True) of that dict
urlencode(items) ==
    LET one(it) == Join([k \in 1..Len(it.values) |->
                            quote_plus(it.name) \o <<"=">> \o quote_plus(it.values[k])], "&")
    IN Join([k \in 1..Len(items) |-> one(items[k])], "&")

\* urllib.parse.urlunparse with empty params and fragment
urlunparse(scheme, netloc, path, query) ==
    LET \* urllib.parse.uses_netloc, the schemes that can be spelled by the inputs
        uses_netloc == { <<>>, T_http, <<"h","t","t","p","s">>, <<"f","t","p">>,
                         <<"f","i","l","e">>, <<"w","s">>, <<"w","s","s">> }
        WithQuery(u2) == IF Len(query) > 0 THEN u2 \o <<"?">> \o query ELSE u2
        WithScheme(u1) == WithQuery(IF Len(scheme) > 0 THEN scheme \o <<":">> \o u1 ELSE u1)
    IN WithScheme(IF \/ Len(netloc) > 0
                     \/ (Len(scheme) > 0 /\ scheme \in uses_netloc
                         /\ ~StartsWith(path, <<"/", "/">>))
                  THEN <<"/", "/">> \o netloc
                       \o (IF Len(path) > 0 /\ path[1] # "/" THEN <<"/">> ELSE <<>>) \o path
                  ELSE path)

\* normalize_url
normalize_url(url) ==
    LET tracking_params ==
          { <<"u","t","m","_","s","o","u","r","c","e">>,
            <<"u","t","m","_","m","e","d","i","u","m">>,
            <<"u","t","m","_","c","a","m","p","a","i","g","n">>,
            <<"u","t","m","_","t","e","r","m">>,
            <<"u","t","m","_","c","o","n","t","e","n","t">>,
            <<"f","b","c","l","i","d">>,
            <<"g","c","l","i","d">>,
            <<"m","c","_","e","i","d">>,
            <<"_","g","a">>,
            <<"r","e","f">>,
            <<"r","e","f","e","r","r","e","r">> }
        OrSlash(path) == IF Len(path) > 0 THEN path ELSE <<"/">>
        Rebuild(parsed) ==
            urlunparse(IF Len(parsed.scheme) > 0 THEN parsed.scheme ELSE T_http,
                       parsed.netloc,
                       OrSlash(RStrip(parsed.path, "/")),
                       IF Len(parsed.query) > 0
                       THEN urlencode(SelectSeq(parse_qs(parsed.query),
                                                LAMBDA it : Lower(it.name) \notin tracking_params))
                       ELSE <<>>)
    IN Rebuild(urlparse(Lower(url)))

----------------------------------------------------------------------------
(* Integers and IP addresses *)

Pow2(n) == 2 ^ n

RECURSIVE DecVal(_)
DecVal(ds) ==
    IF Len(ds) = 0 THEN 0 ELSE 10 * DecVal(SubSeq(ds, 1, Len(ds) - 1)) + (CHOOSE i \in 1..10 : Digits[i] = ds[Len(ds)]) - 1

\* int(str): optional sign, decimal digits, single underscores between digits
PyInt(s) ==
    LET Value(ok, sign, body) ==
            [ok |-> ok,
             val |-> IF ok THEN sign * DecVal(SelectSeq(body, LAMBDA c : c # "_")) ELSE 0]
        Parse(sign, body) ==
            Value(/\ Len(body) > 0
                  /\ \A i \in 1..Len(body) : IsDigit(body[i]) \/ body[i] = "_"
                  /\ body[1] # "_" /\ body[Len(body)] # "_"
                  /\ \A i \in 1..(Len(body) - 1) : ~(body[i] = "_" /\ body[i + 1] = "_"),
                  sign, body)
    IN Parse(IF Len(s) > 0 /\ s[1] = "-" THEN 0 - 1 ELSE 1,
             IF Len(s) > 0 /\ s[1] \in {"+", "-"} THEN Tail(s) ELSE s)

\* ip_to_int: [some |-> FALSE] stands for None
ip_to_int(ip) ==
    LET None == [some |-> FALSE, val |-> 0]
        Pack(n) ==
            IF \E i \in 1..4 : ~n[i].ok THEN None
            ELSE [some |-> TRUE,
                  val |-> n[1].val * Pow2(24) + n[2].val * Pow2(16)
                          + n[3].val * Pow2(8) + n[4].val]
        Quad(parts) ==
            IF Len(parts) # 4 THEN None ELSE Pack([i \in 1..4 |-> PyInt(parts[i])])
    IN IF Contains(ip, ":") THEN None ELSE Quad(Split(ip, "."))

\* int_to_ip
RECURSIVE DecStr(_)
DecStr(n) == IF n < 10 THEN <<Digits[n + 1]>> ELSE DecStr(n \div 10) \o <<Digits[(n % 10) + 1]>>

int_to_ip(ip_int) ==
    Join(<< DecStr((ip_int \div Pow2(24)) % 256), DecStr((ip_int \div Pow2(16)) % 256),
            DecStr((ip_int \div Pow2(8)) % 256), DecStr(ip_int % 256) >>, ".")

----------------------------------------------------------------------------
(* ipaddress / pytricia parsing of the address forms the inputs use:        *)
(* dotted-quad IPv4, "::" and "::h" IPv6, and "<address>/<digits>".        *)

HexDigits == <<"0","1","2","3","4","5","6","7","8","9","a","b","c","d","e","f">>

RECURSIVE HexNum(_)
HexNum(hs) ==
    IF Len(hs) = 0 THEN 0 ELSE 16 * HexNum(SubSeq(hs, 1, Len(hs) - 1)) + (CHOOSE i \in 1..16 : HexDigits[i] = LowerChar(hs[Len(hs)])) - 1

Invalid == [ok |-> FALSE, ver |-> 0, val |-> 0]

\* ipaddress.IPv4Address(s): four decimal octets 0..255 without leading zeros
ParseV4(s) ==
    LET okPart(p) == /\ Len(p) \in 1..3
                     /\ \A i \in 1..Len(p) : IsDigit(p[i])
                     /\ (Len(p) = 1 \/ p[1] # "0")
                     /\ DecVal(p) <= 255
        Quad(parts) ==
            IF Len(parts) = 4 /\ \A i \in 1..4 : okPart(parts[i])
            THEN [ok |-> TRUE, ver |-> 4,
                  val |-> DecVal(parts[1]) * Pow2(24) + DecVal(parts[2]) * Pow2(16)
                          + DecVal(parts[3]) * Pow2(8) + DecVal(parts[4])]
            ELSE Invalid
    IN Quad(Split(s, "."))

\* ipaddress.IPv6Address(s) for "::" and "::h"
ParseV6(s) ==
    LET Group(g) ==
            IF /\ StartsWith(s, <<":", ":">>)
               /\ Len(g) <= 4
               /\ \A i \in 1..Len(g) : (\E k \in 1..16 : HexDigits[k] = LowerChar(g[i]))
            THEN [ok |-> TRUE, ver |-> 6, val |-> HexNum(g)]
            ELSE Invalid
    IN Group(SubSeq(s, 3, Len(s)))

\* ipaddress.ip_address(s)
ip_address(s) ==
    LET OrV6(v4) == IF v4.ok THEN v4 ELSE ParseV6(s)
    IN OrV6(ParseV4(s))

AddrBits(ver) == IF ver = 4 THEN 32 ELSE 128

\* x >> k for the address values of the model (all below 2^31)
ShiftR(x, k) == IF k >= 31 THEN 0 ELSE x \div Pow2(k)

NoNetwork == [ok |-> FALSE, ver |-> 0, net |-> 0, len |-> 0]

\* ipaddress.ip_network(s, strict=False): host bits are masked off
ip_network(s) ==
    LET ShiftL(x, k) == IF x = 0 THEN 0 ELSE x * Pow2(k)
        Net(a, len, sh) ==
            [ok |-> TRUE, ver |-> a.ver, net |-> ShiftL(ShiftR(a.val, sh), sh), len |-> len]
        Prefix(a, pl) ==
            IF /\ Len(pl) >= 1
               /\ \A i \in 1..Len(pl) : IsDigit(pl[i])
               /\ DecVal(pl) <= AddrBits(a.ver)
            THEN Net(a, DecVal(pl), AddrBits(a.ver) - DecVal(pl))
            ELSE NoNetwork
        Addr(parts, a) ==
            IF ~a.ok THEN NoNetwork
            ELSE IF Len(parts) = 1 THEN Net(a, AddrBits(a.ver), 0)
            ELSE Prefix(a, parts[2])
        Parse(parts) ==
            IF Len(parts) \in 1..2 THEN Addr(parts, ip_address(parts[1])) ELSE NoNetwork
    IN Parse(Split(s, "/"))

\* addr in network (ipaddress), and prefix-covers-prefix (patricia search_best)
Covers(network, p) ==
    /\ network.ver = p.ver
    /\ network.len <= p.len
    /\ ShiftR(network.net, AddrBits(p.ver) - network.len)
         = ShiftR(p.net, AddrBits(p.ver) - network.len)

----------------------------------------------------------------------------
(* Inputs *)

D_ec == <<"e",".","c">>
D_sec == <<"s",".","e",".","c">>
U_p == <<"h","t","t","p",":","/","/","e",".","c","/","p">>
U_ps == <<"h","t","t","p",":","/","/","e",".","c","/","p","/">>
I_4 == <<"1",".","2",".","3",".","4">>
I_6 == <<":",":","1">>
I_net == <<"1",".","0",".","0",".","0","/","8">>
I_bad == <<"1",".","0",".","0",".","0","/","3","3">>
I_sub == <<"1",".","2",".","0",".","0","/","1","6">>

DomainInputs == {D_ec, <<"E",".","c">>, D_sec}
UrlInputs == {U_p, U_ps}
IpInputs == {I_4, I_6, I_net}
Values == DomainInputs \cup UrlInputs \cup IpInputs

\* the pure functions tabulated over the input values and over values that
\* are only looked up: a subdomain in capitals, a name that ends like a stored
\* one without a label boundary, addresses inside and outside the CIDR inputs,
\* a dotted string with an octet above 255, a CIDR string with a prefix
\* length above 32
Tabulated ==
    Values \cup {I_sub}
    \cup { <<"X",".","S",".","e",".","c">>, <<"x","e",".","c">>,
           <<"1",".","9",".","9",".","9">>, <<"2",".","2",".","2",".","2">>,
           <<"1",".","2",".","2",".","2","6","0">>, I_bad,
           <<"h","t","t","p",":","/","/","e",".","c","/","q">>,
           <<"H","T","T","P",":","/","/","E",".","C","/","p">>,
           <<"h","t","t","p","s",":","/","/","e",".","c","/","p">>,
           <<"h","t","t","p",":","/","/","e",".","c","/","p","?","u","t","m","_","s","o","u","r","c","e","=","s">> }
Memo ==
    [v \in Tabulated |-> [url |-> normalize_url(v), lower |-> Lower(v), int |-> ip_to_int(v),
                          net |-> ip_network(v), addr |-> ip_address(v)]]

NormalizeUrl(url) == Memo[url].url
ToLower(s) == Memo[s].lower
IpToInt(ip) == Memo[ip].int
IpNetwork(ip) == Memo[ip].net
IpAddress(ip) == Memo[ip].addr

----------------------------------------------------------------------------
(* Source classification *)

HOT_URL_SOURCES == {"PhishTank", "URLhaus"}
HOT_IP_SOURCES == {"BlocklistDE", "CINSSCORE"}
HOT_DOMAIN_SOURCES == {"PhishTank", "PhishStats"}

EntryMetadata(source, date, score) == [source |-> source, date |-> date, score |-> score]

----------------------------------------------------------------------------
(* dict and table helpers *)

Put(f, k, v) == [x \in (DOMAIN f) \cup {k} |-> IF x = k THEN v ELSE f[x]]
Pop(f, k) == [x \in (DOMAIN f) \ {k} |-> f[x]]
Has(f, k) == k \in DOMAIN f

Row(key, date, score, source) == [key |-> key, date |-> date, score |-> score, source |-> source]

\* INSERT OR REPLACE: the old row of the key is deleted, the new row gets a new rowid
InsertOrReplace(rows, r) == SelectSeq(rows, LAMBDA x : x.key # r.key) \o <<r>>

RECURSIVE InsertMany(_, _)
InsertMany(rows, rs) ==
    IF Len(rs) = 0 THEN rows ELSE InsertMany(InsertOrReplace(rows, Head(rs)), Tail(rs))

\* DELETE FROM t WHERE key = ?
DeleteKey(rows, key) == SelectSeq(rows, LAMBDA x : x.key # key)

----------------------------------------------------------------------------
(* The in-memory structures, HybridStorage.__init__ *)

EmptyMem ==
    [ domains |-> {}, urls |-> {}, ips |-> {},
      hot_domains |-> {}, cold_domains |-> {}, hot_urls |-> {}, cold_urls |-> {},
      ips_int |-> {}, ips_str |-> {},
      hot_ips_int |-> {}, cold_ips_int |-> {}, hot_ips_str |-> {}, cold_ips_str |-> {},
      domain_meta |-> <<>>, url_meta |-> <<>>, ip_meta |-> <<>>, ip_int_meta |-> <<>>,
      ipv4_cidr_tree |-> <<>>, ipv6_cidr_tree |-> <<>>,
      cidr_metadata |-> <<>>, cidr_ranges |-> <<>> ]

EmptyDb == [domain |-> <<>>, url |-> <<>>, ip |-> <<>>]

----------------------------------------------------------------------------
(* In-memory insertion, shared by the add_*, add_*s and _load_* paths *)

\* storage_v2.py 515-526, 976-987, 1131-1140
PutDomain(m, domain, meta) ==
    LET Insert(domain_lower) ==
            [m EXCEPT !.domains = @ \cup {domain_lower},
                      !.domain_meta = Put(@, domain_lower, meta),
                      !.hot_domains = IF meta.source \in HOT_DOMAIN_SOURCES
                                      THEN @ \cup {domain_lower} ELSE @,
                      !.cold_domains = IF meta.source \in HOT_DOMAIN_SOURCES
                                       THEN @ ELSE @ \cup {domain_lower}]
    IN Insert(ToLower(domain))

\* storage_v2.py 558-572, 1013-1024, 1163-1172
PutUrl(m, url, meta) ==
    LET Insert(url_normalized) ==
            [m EXCEPT !.urls = @ \cup {url_normalized},
                      !.url_meta = Put(@, url_normalized, meta),
                      !.hot_urls = IF meta.source \in HOT_URL_SOURCES
                                   THEN @ \cup {url_normalized} ELSE @,
                      !.cold_urls = IF meta.source \in HOT_URL_SOURCES
                                    THEN @ ELSE @ \cup {url_normalized}]
    IN Insert(NormalizeUrl(url))

\* PyTricia.__setitem__ raises ValueError on a key it cannot parse
TreeAccepts(ip) == IpNetwork(ip).ok

\* the CIDR branch, storage_v2.py 610-629, 1055-1069, 1196-1208;
\* the caller has checked that the key parses
PutCidr(m, pytricia, ip, meta) ==
    LET Tree(network) ==
            IF pytricia
            THEN IF Contains(ip, ":")
                 THEN [m EXCEPT !.ipv6_cidr_tree = Put(@, network, meta.source)]
                 ELSE [m EXCEPT !.ipv4_cidr_tree = Put(@, network, meta.source)]
            ELSE [m EXCEPT !.cidr_ranges = Append(@, [network |-> network, meta |-> meta])]
    IN [Tree(IpNetwork(ip)) EXCEPT !.cidr_metadata = Put(@, ip, meta)]

\* the single-address branch, storage_v2.py 632-659, 1072-1094, 1210-1231
PutSingleIp(m, ip, meta) ==
    LET Shard(ip_int) ==
            IF ip_int.some
            THEN [m EXCEPT !.ips_int = @ \cup {ip_int.val},
                           !.ip_int_meta = Put(@, ip_int.val, meta),
                           !.hot_ips_int = IF meta.source \in HOT_IP_SOURCES
                                           THEN @ \cup {ip_int.val} ELSE @,
                           !.cold_ips_int = IF meta.source \in HOT_IP_SOURCES
                                            THEN @ ELSE @ \cup {ip_int.val}]
            ELSE [m EXCEPT !.ips_str = @ \cup {ip},
                           !.ip_meta = Put(@, ip, meta),
                           !.hot_ips_str = IF meta.source \in HOT_IP_SOURCES
                                           THEN @ \cup {ip} ELSE @,
                           !.cold_ips_str = IF meta.source \in HOT_IP_SOURCES
                                            THEN @ ELSE @ \cup {ip}]
    IN [Shard(IpToInt(ip)) EXCEPT !.ips = @ \cup {ip},
                                  !.ip_meta = IF Has(@, ip) THEN @ ELSE Put(@, ip, meta)]

IsCidr(ip) == Contains(ip, "/")

\* _load_ips_from_db: metrics.ips_as_integers is assigned the number of rows
\* stored in packed-integer form once the table has been read; r is the
\* metrics state, which carries the field in the specifications that follow it
ips_as_integers(r, rows) ==
    IF "ips_as_integers" \in DOMAIN r
    THEN [r EXCEPT !.ips_as_integers =
             Cardinality({i \in DOMAIN rows :
                 Len(rows[i].key) > 0 /\ ~IsCidr(rows[i].key) /\ IpToInt(rows[i].key).some})]
    ELSE r

----------------------------------------------------------------------------
(* Lookups *)

\* the lookup of the domain itself only, without the loop over its parents
ParentsOf_SelfOnly(domain) == <<domain>>

\* the label suffixes of a domain, the domain itself first
ParentsOf(domain) ==
    LET Suffixes(parts) ==
            [i \in 1..Len(parts) |-> Join(SubSeq(parts, i, Len(parts)), ".")]
    IN Suffixes(Split(domain, "."))

\* the suffixes of the lowercased domain, tabulated over the input values
parents_of == [v \in Tabulated |-> ParentsOf(ToLower(v))]

\* is_domain_blacklisted without its cold-shard checks
DomainTier_HotOnly(m, domain0) ==
    LET Tier(ps) ==
            IF \E i \in 1..Len(ps) : ps[i] \in m.hot_domains THEN "hot" ELSE "miss"
    IN Tier(parents_of[domain0])

\* is_domain_blacklisted: "hot", "cold" or "miss"
DomainTier(m, domain0) ==
    LET Tier(ps) ==
            IF \E i \in 1..Len(ps) : ps[i] \in m.hot_domains THEN "hot"
            ELSE IF \E i \in 1..Len(ps) : ps[i] \in m.cold_domains THEN "cold"
            ELSE "miss"
    IN Tier(parents_of[domain0])

is_domain_blacklisted(m, domain) == DomainTier(m, domain) # "miss"

\* is_url_blacklisted probing the shards with the URL as given
UrlTier_Raw(m, url) ==
    LET Tier(url_normalized) ==
            IF url_normalized \in m.hot_urls THEN "hot"
            ELSE IF url_normalized \in m.cold_urls THEN "cold"
            ELSE "miss"
    IN Tier(url)

\* is_url_blacklisted
UrlTier(m, url) ==
    LET Tier(url_normalized) ==
            IF url_normalized \in m.hot_urls THEN "hot"
            ELSE IF url_normalized \in m.cold_urls THEN "cold"
            ELSE "miss"
    IN Tier(NormalizeUrl(url))

is_url_blacklisted_Raw(m, url) == UrlTier_Raw(m, url) # "miss"

is_url_blacklisted(m, url) == UrlTier(m, url) # "miss"

\* the exact-match part of is_ip_blacklisted
IpTier(m, ip) ==
    LET Tier(ip_int) ==
            IF ip_int.some
            THEN IF ip_int.val \in m.hot_ips_int THEN "hot"
                 ELSE IF ip_int.val \in m.cold_ips_int THEN "cold"
                 ELSE "miss"
            ELSE IF ip \in m.hot_ips_str THEN "hot"
                 ELSE IF ip \in m.cold_ips_str THEN "cold"
                 ELSE "miss"
    IN Tier(IpToInt(ip))

\* the CIDR part of is_ip_blacklisted: radix tree, or linear scan of the list
CidrMatch(m, pytricia, ip) ==
    LET InTree(tree, key) == key.ok /\ \E n \in DOMAIN tree : Covers(n, key)
        InList(addr) ==
            /\ addr.ok
            /\ \E i \in 1..Len(m.cidr_ranges) :
                  Covers(m.cidr_ranges[i].network,
                         [ok |-> TRUE, ver |-> addr.ver, net |-> addr.val,
                          len |-> AddrBits(addr.ver)])
    IN IF pytricia
       THEN InTree(IF Contains(ip, ":") THEN m.ipv6_cidr_tree ELSE m.ipv4_cidr_tree,
                   IpNetwork(ip))
       ELSE InList(IpAddress(ip))

is_ip_blacklisted(m, pytricia, ip) ==
    IpTier(m, ip) # "miss" \/ CidrMatch(m, pytricia, ip)

\* get_domain_blacklist_source walking the suffixes from the top-level label down
get_blacklist_source_FarthestFirst(kind, m, pytricia, v) ==
    LET Domain(ps) ==
            IF \E i \in 1..Len(ps) : Has(m.domain_meta, ps[i])
            THEN <<m.domain_meta[ps[CHOOSE i \in 1..Len(ps) :
                                       /\ Has(m.domain_meta, ps[i])
                                       /\ \A j \in (i + 1)..Len(ps) :
                                              ~Has(m.domain_meta, ps[j])]].source>>
            ELSE <<>>
    IN Domain(parents_of[v])

\* get_domain_blacklist_source, get_url_blacklist_source and
\* get_ip_blacklist_source: <<source>>, or <<>> for None
get_blacklist_source(kind, m, pytricia, v) ==
    LET Get(f, k) == IF Has(f, k) THEN <<f[k].source>> ELSE <<>>
        Domain(ps) ==
            IF \E i \in 1..Len(ps) : Has(m.domain_meta, ps[i])
            THEN Get(m.domain_meta,
                     ps[CHOOSE i \in 1..Len(ps) :
                            /\ Has(m.domain_meta, ps[i])
                            /\ \A j \in 1..(i - 1) : ~Has(m.domain_meta, ps[j])])
            ELSE <<>>
        Tree(tree, key) ==
            IF key.ok /\ \E n \in DOMAIN tree : Covers(n, key)
            THEN <<tree[CHOOSE n \in DOMAIN tree :
                            /\ Covers(n, key)
                            /\ \A n2 \in DOMAIN tree : Covers(n2, key) => n2.len <= n.len]>>
            ELSE <<>>
        Hit(addr, i) ==
            Covers(m.cidr_ranges[i].network,
                   [ok |-> TRUE, ver |-> addr.ver, net |-> addr.val, len |-> AddrBits(addr.ver)])
        List(addr) ==
            IF addr.ok /\ \E i \in 1..Len(m.cidr_ranges) : Hit(addr, i)
            THEN <<m.cidr_ranges[CHOOSE i \in 1..Len(m.cidr_ranges) :
                                     /\ Hit(addr, i)
                                     /\ \A j \in 1..(i - 1) : ~Hit(addr, j)].meta.source>>
            ELSE <<>>
        Ip(ip_int) ==
            IF ip_int.some /\ Has(m.ip_int_meta, ip_int.val) THEN Get(m.ip_int_meta, ip_int.val)
            ELSE IF Has(m.ip_meta, v) THEN Get(m.ip_meta, v)
            ELSE IF pytricia
                 THEN Tree(IF Contains(v, ":") THEN m.ipv6_cidr_tree ELSE m.ipv4_cidr_tree,
                           IpNetwork(v))
                 ELSE List(IpAddress(v))
    IN CASE kind = "domain" -> Domain(parents_of[v])
         [] kind = "url" -> Get(m.url_meta, NormalizeUrl(v))
         [] OTHER -> Ip(IpToInt(v))

\* count_entries
count_entries(m) ==
    Cardinality(m.domains) + Cardinality(m.urls) + Cardinality(m.ips)
      + Cardinality(m.ips_int) + Cardinality(m.ips_str) + Cardinality(DOMAIN m.cidr_metadata)

\* get_source_counts: the dict of the sources that occur, each with its count
get_source_counts(m) ==
    LET Of(f, s) == Cardinality({k \in DOMAIN f : f[k].source = s})
        Sources(f) == {f[k].source : k \in DOMAIN f}
    IN [s \in Sources(m.domain_meta) \cup Sources(m.url_meta) \cup Sources(m.ip_meta)
                \cup Sources(m.ip_int_meta) \cup Sources(m.cidr_metadata) |->
          Of(m.domain_meta, s) + Of(m.url_meta, s) + Of(m.ip_meta, s)
            + Of(m.ip_int_meta, s) + Of(m.cidr_metadata, s)]

----------------------------------------------------------------------------
(* _load_*_from_db: rows are read in rowid order; a row that raises is      *)
(* skipped.  None of the three clears its structures first.                *)

RECURSIVE load_domains_from_db(_, _)
RECURSIVE load_domains_from_db_RawKey(_, _)

\* _load_domains_from_db keeping the row's spelling instead of domain.lower()
load_domains_from_db_RawKey(m, rows) ==
    IF Len(rows) = 0 THEN m
    ELSE LET r == Head(rows)
             meta == EntryMetadata(r.source, r.date, r.score)
             m1 == IF Len(r.key) = 0 THEN m
                   ELSE [m EXCEPT !.domains = @ \cup {r.key},
                                  !.domain_meta = Put(@, r.key, meta),
                                  !.hot_domains = IF meta.source \in HOT_DOMAIN_SOURCES
                                                  THEN @ \cup {r.key} ELSE @,
                                  !.cold_domains = IF meta.source \in HOT_DOMAIN_SOURCES
                                                   THEN @ ELSE @ \cup {r.key}]
         IN load_domains_from_db_RawKey(m1, Tail(rows))

load_domains_from_db(m, rows) ==
    IF Len(rows) = 0 THEN m
    ELSE LET r == Head(rows)
             m1 == IF Len(r.key) = 0 THEN m
                   ELSE PutDomain(m, r.key, EntryMetadata(r.source, r.date, r.score))
         IN load_domains_from_db(m1, Tail(rows))

RECURSIVE load_urls_from_db(_, _)
load_urls_from_db(m, rows) ==
    IF Len(rows) = 0 THEN m
    ELSE LET r == Head(rows)
             m1 == IF Len(r.key) = 0 THEN m
                   ELSE PutUrl(m, r.key, EntryMetadata(r.source, r.date, r.score))
         IN load_urls_from_db(m1, Tail(rows))

RECURSIVE load_ips_from_db(_, _, _)
RECURSIVE load_ips_from_db_KeepsBadCidr(_, _, _)

\* _load_ips_from_db recording the metadata of a CIDR row before it is parsed
load_ips_from_db_KeepsBadCidr(m, pytricia, rows) ==
    IF Len(rows) = 0 THEN m
    ELSE LET r == Head(rows)
             meta == EntryMetadata(r.source, r.date, r.score)
             m1 == IF Len(r.key) = 0 THEN m
                   ELSE IF IsCidr(r.key)
                        THEN IF TreeAccepts(r.key) THEN PutCidr(m, pytricia, r.key, meta)
                             ELSE [m EXCEPT !.cidr_metadata = Put(@, r.key, meta)]
                        ELSE PutSingleIp(m, r.key, meta)
         IN load_ips_from_db_KeepsBadCidr(m1, pytricia, Tail(rows))

load_ips_from_db(m, pytricia, rows) ==
    IF Len(rows) = 0 THEN m
    ELSE LET r == Head(rows)
             meta == EntryMetadata(r.source, r.date, r.score)
             m1 == IF Len(r.key) = 0 THEN m
                   ELSE IF IsCidr(r.key)
                        THEN IF TreeAccepts(r.key) THEN PutCidr(m, pytricia, r.key, meta) ELSE m
                        ELSE PutSingleIp(m, r.key, meta)
         IN load_ips_from_db(m1, pytricia, Tail(rows))

\* _load_all_data: clear everything, then load the tables in order; failAt
\* names the table whose read raises ("none" when all succeed)
load_all_data(pytricia, d, failAt) ==
    LET Ips(m2) == IF failAt = "ip" THEN m2 ELSE load_ips_from_db(m2, pytricia, d.ip)
        Urls(m1) == IF failAt = "url" THEN m1 ELSE Ips(load_urls_from_db(m1, d.url))
    IN IF failAt = "domain" THEN EmptyMem
       ELSE Urls(load_domains_from_db(EmptyMem, d.domain))

----------------------------------------------------------------------------
(* Rollback branches of add_domain, add_url, add_ip *)

\* storage_v2.py 1002-1005
RollbackDomain(m, domain) ==
    LET Discard(domain_lower) ==
            [m EXCEPT !.domains = @ \ {domain_lower},
                      !.domain_meta = Pop(@, domain_lower),
                      !.hot_domains = @ \ {domain_lower},
                      !.cold_domains = @ \ {domain_lower}]
    IN Discard(ToLower(domain))

\* storage_v2.py 1039-1042
RollbackUrl(m, url) ==
    LET Discard(url_normalized) ==
            [m EXCEPT !.urls = @ \ {url_normalized},
                      !.url_meta = Pop(@, url_normalized),
                      !.hot_urls = @ \ {url_normalized},
                      !.cold_urls = @ \ {url_normalized}]
    IN Discard(NormalizeUrl(url))

\* storage_v2.py 1109-1122
RollbackIp(m, ip) ==
    LET Discard(ip_int) ==
            IF ip_int.some
            THEN [m EXCEPT !.ips_int = @ \ {ip_int.val},
                           !.ip_int_meta = Pop(@, ip_int.val),
                           !.hot_ips_int = @ \ {ip_int.val},
                           !.cold_ips_int = @ \ {ip_int.val},
                           !.ips = @ \ {ip}]
            ELSE [m EXCEPT !.ips_str = @ \ {ip},
                           !.ip_meta = Pop(@, ip),
                           !.hot_ips_str = @ \ {ip},
                           !.cold_ips_str = @ \ {ip},
                           !.ips = @ \ {ip}]
    IN IF IsCidr(ip)
       THEN [m EXCEPT !.cidr_metadata = Pop(@, ip)]
       ELSE Discard(IpToInt(ip))

\* the in-memory part of add_ip
PutIp(m, pytricia, ip, meta) ==
    IF IsCidr(ip) THEN PutCidr(m, pytricia, ip, meta) ELSE PutSingleIp(m, ip, meta)

\* add_ip raises ValueError before touching anything when the CIDR does not parse
IpRaises(ip) == IsCidr(ip) /\ ~TreeAccepts(ip)

----------------------------------------------------------------------------
(* In-memory parts of the batch operations *)

RECURSIVE PutDomains(_, _)
PutDomains(m, items) ==
    IF Len(items) = 0 THEN m
    ELSE PutDomains(PutDomain(m, Head(items).key,
                              EntryMetadata(Head(items).source, Head(items).date, Head(items).score)),
                    Tail(items))

RECURSIVE PutUrls(_, _)
PutUrls(m, items) ==
    IF Len(items) = 0 THEN m
    ELSE PutUrls(PutUrl(m, Head(items).key,
                        EntryMetadata(Head(items).source, Head(items).date, Head(items).score)),
                 Tail(items))

\* add_ips: with the radix tree an unparseable CIDR raises out of the loop,
\* with the fallback list it is skipped by "continue"
RECURSIVE PutIps(_, _, _)
PutIps(m, pytricia, items) ==
    IF Len(items) = 0 THEN [m |-> m, raised |-> FALSE]
    ELSE LET it == Head(items)
             meta == EntryMetadata(it.source, it.date, it.score)
         IN IF IpRaises(it.key)
            THEN IF pytricia THEN [m |-> m, raised |-> TRUE]
                 ELSE PutIps(m, pytricia, Tail(items))
            ELSE PutIps(PutIp(m, pytricia, it.key, meta), pytricia, Tail(items))

----------------------------------------------------------------------------
(* remove_entry: the in-memory part, storage_v2.py 1466-1506 *)

\* remove_entry without the discards from the hot and cold domain shards
RemoveMem_KeepsShards(m, value) ==
    LET Domain(r, value_lower) ==
            IF value_lower \in r.m.domains
            THEN [m |-> [r.m EXCEPT !.domains = @ \ {value_lower},
                                    !.domain_meta = Pop(@, value_lower)],
                  removed |-> TRUE]
            ELSE r
        Url(r, value_normalized) ==
            IF value_normalized \in r.m.urls
            THEN [m |-> [r.m EXCEPT !.urls = @ \ {value_normalized},
                                    !.url_meta = Pop(@, value_normalized),
                                    !.hot_urls = @ \ {value_normalized},
                                    !.cold_urls = @ \ {value_normalized}],
                  removed |-> TRUE]
            ELSE r
        IpStr(r) ==
            IF value \in r.m.ips \/ value \in r.m.ips_str
            THEN [m |-> [r.m EXCEPT !.ips = @ \ {value},
                                    !.ips_str = @ \ {value},
                                    !.ip_meta = Pop(@, value),
                                    !.hot_ips_str = @ \ {value},
                                    !.cold_ips_str = @ \ {value}],
                  removed |-> TRUE]
            ELSE r
        IpInt(r, ip_int) ==
            IF ip_int.some /\ ip_int.val \in r.m.ips_int
            THEN [m |-> [r.m EXCEPT !.ips_int = @ \ {ip_int.val},
                                    !.ip_int_meta = Pop(@, ip_int.val),
                                    !.hot_ips_int = @ \ {ip_int.val},
                                    !.cold_ips_int = @ \ {ip_int.val},
                                    !.ips = @ \ {value}],
                  removed |-> TRUE]
            ELSE r
        Cidr(r) ==
            IF Has(r.m.cidr_metadata, value)
            THEN [m |-> [r.m EXCEPT !.cidr_metadata = Pop(@, value)], removed |-> TRUE]
            ELSE r
    IN Cidr(IpInt(IpStr(Url(Domain([m |-> m, removed |-> FALSE], ToLower(value)),
                            NormalizeUrl(value))),
                  IpToInt(value)))

RemoveMem(m, value) ==
    LET Domain(r, value_lower) ==
            IF value_lower \in r.m.domains
            THEN [m |-> [r.m EXCEPT !.domains = @ \ {value_lower},
                                    !.domain_meta = Pop(@, value_lower),
                                    !.hot_domains = @ \ {value_lower},
                                    !.cold_domains = @ \ {value_lower}],
                  removed |-> TRUE]
            ELSE r
        Url(r, value_normalized) ==
            IF value_normalized \in r.m.urls
            THEN [m |-> [r.m EXCEPT !.urls = @ \ {value_normalized},
                                    !.url_meta = Pop(@, value_normalized),
                                    !.hot_urls = @ \ {value_normalized},
                                    !.cold_urls = @ \ {value_normalized}],
                  removed |-> TRUE]
            ELSE r
        IpStr(r) ==
            IF value \in r.m.ips \/ value \in r.m.ips_str
            THEN [m |-> [r.m EXCEPT !.ips = @ \ {value},
                                    !.ips_str = @ \ {value},
                                    !.ip_meta = Pop(@, value),
                                    !.hot_ips_str = @ \ {value},
                                    !.cold_ips_str = @ \ {value}],
                  removed |-> TRUE]
            ELSE r
        IpInt(r, ip_int) ==
            IF ip_int.some /\ ip_int.val \in r.m.ips_int
            THEN [m |-> [r.m EXCEPT !.ips_int = @ \ {ip_int.val},
                                    !.ip_int_meta = Pop(@, ip_int.val),
                                    !.hot_ips_int = @ \ {ip_int.val},
                                    !.cold_ips_int = @ \ {ip_int.val},
                                    !.ips = @ \ {value}],
                  removed |-> TRUE]
            ELSE r
        Cidr(r) ==
            IF Has(r.m.cidr_metadata, value)
            THEN [m |-> [r.m EXCEPT !.cidr_metadata = Pop(@, value)], removed |-> TRUE]
            ELSE r
    IN Cidr(IpInt(IpStr(Url(Domain([m |-> m, removed |-> FALSE], ToLower(value)),
                            NormalizeUrl(value))),
                  IpToInt(value)))

\* the DELETE statements without the one on blacklist_ip
DeleteEverywhere_SkipsIp(d, value) ==
    [domain |-> DeleteKey(d.domain, value),
     url |-> DeleteKey(d.url, value),
     ip |-> d.ip]

\* the three DELETE statements, storage_v2.py 1512-1515
DeleteEverywhere(d, value) ==
    [domain |-> DeleteKey(d.domain, value),
     url |-> DeleteKey(d.url, value),
     ip |-> DeleteKey(d.ip, value)]

----------------------------------------------------------------------------
(* Operation inputs *)

\* PhishTank is a hot source for domains and URLs, BlocklistDE for IPs
Metas == { EntryMetadata("PhishTank", "2025-01-01", 9),
           EntryMetadata("BlocklistDE", "2025-02-02", 7) }

\* a batch comes from one feed: up to MaxBatch distinct keys with the feed's metadata
FeedMeta == EntryMetadata("PhishTank", "2025-01-01", 9)

BatchesOf(S) ==
    { [i \in 1..Len(q) |-> Row(q[i], FeedMeta.date, FeedMeta.score, FeedMeta.source)] :
        q \in UNION { {q \in [1..n -> S] : \A i, j \in 1..n : i # j => q[i] # q[j]} :
                        n \in 1..MaxBatch } }

\* (executemany succeeds, the reload of the except branch succeeds)
BatchOutcomes == {<<TRUE, TRUE>>, <<FALSE, TRUE>>, <<FALSE, FALSE>>}

Idle == [op |-> "idle"]
NoOp == [op |-> "init", arg |-> <<>>, outcome |-> "ok", res |-> FALSE]
Completed(op, arg, outcome, res) == [op |-> op, arg |-> arg, outcome |-> outcome, res |-> res]

\* two values name the same entry of a kind
SameEntry(kind, v, w) ==
    LET SameInt(a, b) == a.some /\ b.some /\ a.val = b.val
    IN CASE kind = "domain" -> ToLower(v) = ToLower(w)
         [] kind = "url" -> NormalizeUrl(v) = NormalizeUrl(w)
         [] OTHER -> v = w \/ SameInt(IpToInt(v), IpToInt(w))

----------------------------------------------------------------------------
(* State after construction on a fresh database file *)

Init ==
    /\ usePytricia \in BOOLEAN
    /\ db = EmptyDb
    /\ mem = load_all_data(usePytricia, db, "none")
    /\ lockHolder = "none"
    /\ wpc = Idle
    /\ last = NoOp
    /\ rd = [uncommitted |-> FALSE, missing |-> FALSE]
    /\ live = {}
    /\ removed = {}
    /\ budget = MaxOps

----------------------------------------------------------------------------
(* The operations, each run to completion by one thread *)

Sequential == wpc = Idle /\ lockHolder = "none" /\ budget > 0

Frame == UNCHANGED <<usePytricia, lockHolder, wpc, rd>>

add_domain(domain, date, score, source, dbok) ==
    /\ Sequential
    /\ LET m1 == PutDomain(mem, domain, EntryMetadata(source, date, score))
       IN IF dbok
          THEN /\ mem' = m1
               /\ db' = [db EXCEPT !.domain = InsertOrReplace(@, Row(domain, date, score, source))]
          ELSE /\ mem' = RollbackDomain(m1, domain)
               /\ db' = db
    /\ last' = Completed("add_domain", domain, IF dbok THEN "ok" ELSE "db_error", FALSE)
    /\ live' = IF dbok THEN live \cup {<<"domain", domain>>} ELSE live
    /\ removed' = IF dbok THEN {} ELSE removed
    /\ budget' = budget - 1
    /\ Frame

add_url(url, date, score, source, dbok) ==
    /\ Sequential
    /\ LET m1 == PutUrl(mem, url, EntryMetadata(source, date, score))
       IN IF dbok
          THEN /\ mem' = m1
               /\ db' = [db EXCEPT !.url = InsertOrReplace(@, Row(url, date, score, source))]
          ELSE /\ mem' = RollbackUrl(m1, url)
               /\ db' = db
    /\ last' = Completed("add_url", url, IF dbok THEN "ok" ELSE "db_error", FALSE)
    /\ live' = IF dbok THEN live \cup {<<"url", url>>} ELSE live
    /\ removed' = IF dbok THEN {} ELSE removed
    /\ budget' = budget - 1
    /\ Frame

add_ip(ip, date, score, source, dbok) ==
    /\ Sequential
    /\ IF IpRaises(ip)
       THEN /\ UNCHANGED <<mem, db, live, removed>>
            /\ last' = Completed("add_ip", ip, "value_error", FALSE)
       ELSE /\ LET m1 == PutIp(mem, usePytricia, ip, EntryMetadata(source, date, score))
               IN IF dbok
                  THEN /\ mem' = m1
                       /\ db' = [db EXCEPT !.ip = InsertOrReplace(@, Row(ip, date, score, source))]
                  ELSE /\ mem' = RollbackIp(m1, ip)
                       /\ db' = db
            /\ last' = Completed("add_ip", ip, IF dbok THEN "ok" ELSE "db_error", FALSE)
            /\ live' = IF dbok THEN live \cup {<<"ip", ip>>} ELSE live
            /\ removed' = IF dbok THEN {} ELSE removed
    /\ budget' = budget - 1
    /\ Frame

\* dbok: executemany and commit succeed; loadok: the reload in the except branch succeeds
add_domains(domains, dbok, loadok) ==
    /\ Sequential
    /\ LET m1 == PutDomains(mem, domains)
       IN IF dbok
          THEN /\ mem' = m1
               /\ db' = [db EXCEPT !.domain = InsertMany(@, domains)]
          ELSE /\ mem' = IF loadok THEN load_domains_from_db(m1, db.domain) ELSE m1
               /\ db' = db
    /\ last' = Completed("add_domains", domains, IF dbok THEN "ok" ELSE "db_error", FALSE)
    /\ removed' = IF dbok THEN {} ELSE removed
    /\ budget' = budget - 1
    /\ UNCHANGED live
    /\ Frame

add_urls(urls, dbok, loadok) ==
    /\ Sequential
    /\ LET m1 == PutUrls(mem, urls)
       IN IF dbok
          THEN /\ mem' = m1
               /\ db' = [db EXCEPT !.url = InsertMany(@, urls)]
          ELSE /\ mem' = IF loadok THEN load_urls_from_db(m1, db.url) ELSE m1
               /\ db' = db
    /\ last' = Completed("add_urls", urls, IF dbok THEN "ok" ELSE "db_error", FALSE)
    /\ removed' = IF dbok THEN {} ELSE removed
    /\ budget' = budget - 1
    /\ UNCHANGED live
    /\ Frame

add_ips(ips, dbok, loadok) ==
    /\ Sequential
    /\ LET Finish(p) ==
               IF p.raised
               THEN /\ mem' = p.m
                    /\ db' = db
                    /\ rd' = rd
                    /\ last' = Completed("add_ips", ips, "value_error", FALSE)
                    /\ removed' = removed
               ELSE /\ IF dbok
                       THEN /\ mem' = p.m
                            /\ db' = [db EXCEPT !.ip = InsertMany(@, ips)]
                            /\ rd' = rd
                       ELSE /\ mem' = IF loadok
                                      THEN load_ips_from_db(p.m, usePytricia, db.ip)
                                      ELSE p.m
                            /\ rd' = IF loadok THEN ips_as_integers(rd, db.ip) ELSE rd
                            /\ db' = db
                    /\ last' = Completed("add_ips", ips, IF dbok THEN "ok" ELSE "db_error", FALSE)
                    /\ removed' = IF dbok THEN {} ELSE removed
       IN Finish(PutIps(mem, usePytricia, ips))
    /\ budget' = budget - 1
    /\ UNCHANGED <<live, usePytricia, lockHolder, wpc>>

\* dbok: the DELETE transaction succeeds (it is only attempted when removed)
\* remove_entry deleting and answering True whether or not it found the value
remove_entry_AlwaysTrue(value, dbok) ==
    /\ Sequential
    /\ LET Finish(r, deleted) ==
               /\ mem' = r.m
               /\ db' = IF deleted THEN DeleteEverywhere(db, value) ELSE db
               /\ last' = Completed("remove_entry", value,
                                    IF ~dbok THEN "db_error" ELSE "ok", deleted)
               /\ removed' = IF deleted THEN removed \cup {value} ELSE removed
           Delete(r) == Finish(r, dbok)
       IN Delete(RemoveMem(mem, value))
    /\ live' = {e \in live : \A k \in {"domain", "url", "ip"} : ~SameEntry(k, e[2], value)}
    /\ budget' = budget - 1
    /\ Frame

remove_entry(value, dbok) ==
    /\ Sequential
    /\ LET Finish(r, deleted) ==
               /\ mem' = r.m
               /\ db' = IF deleted THEN DeleteEverywhere(db, value) ELSE db
               /\ last' = Completed("remove_entry", value,
                                    IF r.removed /\ ~dbok THEN "db_error" ELSE "ok", deleted)
               /\ removed' = IF deleted THEN removed \cup {value} ELSE removed
           Delete(r) == Finish(r, r.removed /\ dbok)
       IN Delete(RemoveMem(mem, value))
    /\ live' = {e \in live : \A k \in {"domain", "url", "ip"} : ~SameEntry(k, e[2], value)}
    /\ budget' = budget - 1
    /\ Frame

\* reload() = _load_all_data(); failAt names the table whose read raises
reload(failAt) ==
    /\ Sequential
    /\ mem' = load_all_data(usePytricia, db, failAt)
    /\ rd' = IF failAt = "none" THEN ips_as_integers(rd, db.ip) ELSE rd
    /\ last' = Completed("reload", <<>>, IF failAt = "none" THEN "ok" ELSE "db_error", FALSE)
    /\ live' = {}
    /\ budget' = budget - 1
    /\ UNCHANGED <<db, removed, usePytricia, lockHolder, wpc>>

\* another process, or a test, inserts a row directly into the database file
external_insert(table, key, date, score, source) ==
    /\ Sequential
    /\ db' = [db EXCEPT ![table] = InsertOrReplace(@, Row(key, date, score, source))]
    /\ last' = Completed("external_insert", key, "ok", FALSE)
    /\ removed' = {}
    /\ budget' = budget - 1
    /\ UNCHANGED <<mem, live>>
    /\ Frame

Next ==
    \/ \E v \in DomainInputs, md \in Metas, dbok \in BOOLEAN :
          add_domain(v, md.date, md.score, md.source, dbok)
    \/ \E v \in UrlInputs, md \in Metas, dbok \in BOOLEAN :
          add_url(v, md.date, md.score, md.source, dbok)
    \/ \E v \in IpInputs, md \in Metas, dbok \in BOOLEAN :
          add_ip(v, md.date, md.score, md.source, dbok)
    \/ \E b \in BatchesOf(DomainInputs), o \in BatchOutcomes : add_domains(b, o[1], o[2])
    \/ \E b \in BatchesOf(UrlInputs), o \in BatchOutcomes : add_urls(b, o[1], o[2])
    \/ \E b \in BatchesOf(IpInputs), o \in BatchOutcomes : add_ips(b, o[1], o[2])
    \/ \E v \in Values, dbok \in BOOLEAN : remove_entry(v, dbok)
    \/ \E failAt \in {"none", "domain", "url", "ip"} : reload(failAt)
    \/ \E v \in DomainInputs, md \in Metas :
          external_insert("domain", v, md.date, md.score, md.source)
    \/ \E v \in UrlInputs, md \in Metas :
          external_insert("url", v, md.date, md.score, md.source)
    \/ \E v \in IpInputs, md \in Metas :
          external_insert("ip", v, md.date, md.score, md.source)

Spec == Init /\ [][Next]_vars

\* the same without writes by other processes
NextOwn ==
    \/ \E v \in DomainInputs, md \in Metas, dbok \in BOOLEAN :
          add_domain(v, md.date, md.score, md.source, dbok)
    \/ \E v \in UrlInputs, md \in Metas, dbok \in BOOLEAN :
          add_url(v, md.date, md.score, md.source, dbok)
    \/ \E v \in IpInputs, md \in Metas, dbok \in BOOLEAN :
          add_ip(v, md.date, md.score, md.source, dbok)
    \/ \E b \in BatchesOf(DomainInputs), o \in BatchOutcomes : add_domains(b, o[1], o[2])
    \/ \E b \in BatchesOf(UrlInputs), o \in BatchOutcomes : add_urls(b, o[1], o[2])
    \/ \E b \in BatchesOf(IpInputs), o \in BatchOutcomes : add_ips(b, o[1], o[2])
    \/ \E v \in Values, dbok \in BOOLEAN : remove_entry(v, dbok)
    \/ \E failAt \in {"none", "domain", "url", "ip"} : reload(failAt)

SpecOwn == Init /\ [][NextOwn]_vars

\* the instance's own operations when every durable commit succeeds
NextOk ==
    \/ \E v \in DomainInputs, md \in Metas : add_domain(v, md.date, md.score, md.source, TRUE)
    \/ \E v \in UrlInputs, md \in Metas : add_url(v, md.date, md.score, md.source, TRUE)
    \/ \E v \in IpInputs, md \in Metas : add_ip(v, md.date, md.score, md.source, TRUE)
    \/ \E b \in BatchesOf(DomainInputs) : add_domains(b, TRUE, TRUE)
    \/ \E b \in BatchesOf(UrlInputs) : add_urls(b, TRUE, TRUE)
    \/ \E b \in BatchesOf(IpInputs) : add_ips(b, TRUE, TRUE)
    \/ \E v \in Values : remove_entry(v, TRUE)

SpecOk == Init /\ [][NextOk]_vars

\* longer runs over the domain operations only
InitDomain ==
    /\ usePytricia \in BOOLEAN
    /\ db = EmptyDb
    /\ mem = load_all_data(usePytricia, db, "none")
    /\ lockHolder = "none"
    /\ wpc = Idle
    /\ last = NoOp
    /\ rd = [uncommitted |-> FALSE, missing |-> FALSE]
    /\ live = {}
    /\ removed = {}
    /\ budget = MaxDeepOps

NextDomain ==
    \/ \E v \in DomainInputs, md \in Metas, dbok \in BOOLEAN :
          add_domain(v, md.date, md.score, md.source, dbok)
    \/ \E v \in DomainInputs, dbok \in BOOLEAN : remove_entry(v, dbok)
    \/ \E failAt \in {"none", "domain"} : reload(failAt)

SpecDomain == InitDomain /\ [][NextDomain]_vars

\* the URL operations, with one domain of the URLs' host, at the deeper bound
NextUrl ==
    \/ \E v \in UrlInputs, md \in Metas, dbok \in BOOLEAN :
          add_url(v, md.date, md.score, md.source, dbok)
    \/ \E b \in BatchesOf(UrlInputs), o \in BatchOutcomes : add_urls(b, o[1], o[2])
    \/ \E md \in Metas : add_domain(D_ec, md.date, md.score, md.source, TRUE)
    \/ \E v \in UrlInputs \cup {D_ec}, dbok \in BOOLEAN : remove_entry(v, dbok)
    \/ \E failAt \in {"none", "url"} : reload(failAt)
    \/ \E v \in UrlInputs, md \in Metas :
          external_insert("url", v, md.date, md.score, md.source)

SpecUrl == InitDomain /\ [][NextUrl]_vars

\* rows written to the tables by another process, among them rows with an
\* empty key and a CIDR row that does not parse, and reloads
NextLoad ==
    \/ \E v \in {D_ec, D_sec, <<>>}, md \in Metas :
          external_insert("domain", v, md.date, md.score, md.source)
    \/ \E v \in {U_p, <<>>}, md \in Metas :
          external_insert("url", v, md.date, md.score, md.source)
    \/ \E v \in {I_4, I_6, I_net, I_bad, <<>>}, md \in Metas :
          external_insert("ip", v, md.date, md.score, md.source)
    \/ reload("none")

SpecLoad == InitDomain /\ [][NextLoad]_vars

----------------------------------------------------------------------------
(* One writer thread and reader threads.  A write is split where other     *)
(* threads can run: after the in-memory mutation (the durable commit is    *)
(* still to come) and, for _load_all_data, after the clear and after each  *)
(* table.  The writer holds self._lock throughout; is_*_blacklisted and    *)
(* get_*_blacklist_source never take it.                                   *)

PutKind(kind, m, pytricia, v, meta) ==
    CASE kind = "domain" -> PutDomain(m, v, meta)
      [] kind = "url" -> PutUrl(m, v, meta)
      [] OTHER -> PutIp(m, pytricia, v, meta)

RollbackKind(kind, m, v) ==
    CASE kind = "domain" -> RollbackDomain(m, v)
      [] kind = "url" -> RollbackUrl(m, v)
      [] OTHER -> RollbackIp(m, v)

LookupKind(kind, m, pytricia, v) ==
    CASE kind = "domain" -> is_domain_blacklisted(m, v)
      [] kind = "url" -> is_url_blacklisted(m, v)
      [] OTHER -> is_ip_blacklisted(m, pytricia, v)

InputsOf(kind) ==
    CASE kind = "domain" -> DomainInputs
      [] kind = "url" -> UrlInputs
      [] OTHER -> IpInputs

InitConc ==
    /\ usePytricia \in BOOLEAN
    /\ db = EmptyDb
    /\ mem = load_all_data(usePytricia, db, "none")
    /\ lockHolder = "none"
    /\ wpc = Idle
    /\ last = NoOp
    /\ rd = [uncommitted |-> FALSE, missing |-> FALSE]
    /\ live = {}
    /\ removed = {}
    /\ budget = MaxConcOps

\* add_domain / add_url / add_ip up to the in-memory mutation
add_begin(kind, v, date, score, source) ==
    /\ wpc = Idle /\ lockHolder = "none" /\ budget > 0
    /\ ~(kind = "ip" /\ IpRaises(v))
    /\ lockHolder' = "writer"
    /\ mem' = PutKind(kind, mem, usePytricia, v, EntryMetadata(source, date, score))
    /\ wpc' = [op |-> "add", kind |-> kind, arg |-> v,
               row |-> Row(v, date, score, source),
               pre |-> LookupKind(kind, mem, usePytricia, v)]
    /\ rd' = [uncommitted |-> FALSE, missing |-> FALSE]
    /\ budget' = budget - 1
    /\ UNCHANGED <<db, usePytricia, last, live, removed>>

\* the INSERT OR REPLACE commits
add_commit ==
    /\ wpc.op = "add" /\ lockHolder = "writer"
    /\ db' = [db EXCEPT ![wpc.kind] = InsertOrReplace(@, wpc.row)]
    /\ last' = Completed("add_" \o wpc.kind, wpc.arg, "ok", FALSE)
    /\ wpc' = Idle
    /\ lockHolder' = "none"
    /\ UNCHANGED <<mem, usePytricia, rd, live, removed, budget>>

\* the INSERT OR REPLACE raises: the except branch, then the error propagates
add_fail ==
    /\ wpc.op = "add" /\ lockHolder = "writer"
    /\ mem' = RollbackKind(wpc.kind, mem, wpc.arg)
    /\ last' = Completed("add_" \o wpc.kind, wpc.arg, "db_error", FALSE)
    /\ wpc' = Idle
    /\ lockHolder' = "none"
    /\ UNCHANGED <<db, usePytricia, rd, live, removed, budget>>

\* _load_all_data: take the lock and clear every structure
reload_clear ==
    /\ wpc = Idle /\ lockHolder = "none" /\ budget > 0
    /\ lockHolder' = "writer"
    /\ mem' = EmptyMem
    /\ wpc' = [op |-> "reload", next |-> "domain"]
    /\ rd' = [uncommitted |-> FALSE, missing |-> FALSE]
    /\ budget' = budget - 1
    /\ UNCHANGED <<db, usePytricia, last, live, removed>>

\* _load_all_data: load the next table; after the last one release the lock
reload_table ==
    /\ wpc.op = "reload" /\ lockHolder = "writer"
    /\ mem' = CASE wpc.next = "domain" -> load_domains_from_db(mem, db.domain)
                [] wpc.next = "url" -> load_urls_from_db(mem, db.url)
                [] OTHER -> load_ips_from_db(mem, usePytricia, db.ip)
    /\ IF wpc.next = "ip"
       THEN /\ wpc' = Idle
            /\ lockHolder' = "none"
            /\ last' = Completed("reload", <<>>, "ok", FALSE)
       ELSE /\ wpc' = [wpc EXCEPT !.next = IF wpc.next = "domain" THEN "url" ELSE "ip"]
            /\ UNCHANGED <<lockHolder, last>>
    /\ UNCHANGED <<db, usePytricia, rd, live, removed, budget>>

\* a reader thread runs is_domain_blacklisted / is_url_blacklisted /
\* is_ip_blacklisted on v; it needs no lock
reader_lookup(kind, v) ==
    LET result == LookupKind(kind, mem, usePytricia, v)
    IN /\ rd' = [uncommitted |-> \/ rd.uncommitted
                                 \/ /\ wpc.op = "add"
                                    /\ wpc.kind = kind
                                    /\ SameEntry(kind, v, wpc.arg)
                                    /\ result
                                    /\ ~wpc.pre,
                 missing |-> \/ rd.missing
                             \/ /\ wpc.op = "reload"
                                /\ \E i \in 1..Len(db[kind]) :
                                       Len(db[kind][i].key) > 0 /\ SameEntry(kind, db[kind][i].key, v)
                                /\ ~result]
       /\ UNCHANGED <<mem, db, usePytricia, lockHolder, wpc, last, live, removed, budget>>

NextConc ==
    \/ \E v \in DomainInputs, md \in Metas : add_begin("domain", v, md.date, md.score, md.source)
    \/ \E v \in UrlInputs, md \in Metas : add_begin("url", v, md.date, md.score, md.source)
    \/ \E v \in IpInputs, md \in Metas : add_begin("ip", v, md.date, md.score, md.source)
    \/ add_commit
    \/ add_fail
    \/ reload_clear
    \/ reload_table
    \/ \E kind \in {"domain", "url", "ip"} : \E v \in InputsOf(kind) : reader_lookup(kind, v)

SpecConc == InitConc /\ [][NextConc]_vars

----------------------------------------------------------------------------
(* Several writer threads.  Every writing method runs inside                *)
(* `with self._lock:`; it is split after its in-memory mutation, where the  *)
(* durable commit (or the rollback) is still to come.  Each thread runs one *)
(* operation, fixed when the thread starts; `last` keeps the memory and the *)
(* store the threads started from.                                          *)

MaxWriters == 2
\* thread identities; lockHolder is 0 while no thread holds the lock
Writers == 1..MaxWriters

\* the calls a writer thread can make; ok: its durable transaction succeeds
WriterOps ==
    { [op |-> "add", kind |-> x[1], arg |-> x[2], meta |-> x[3], ok |-> x[4]] :
        x \in { <<"domain", D_sec, FeedMeta, TRUE>>,
                <<"domain", D_ec, FeedMeta, FALSE>>,
                <<"url", U_p, FeedMeta, TRUE>>,
                <<"ip", I_4, FeedMeta, TRUE>>,
                <<"ip", I_net, FeedMeta, TRUE>>,
                <<"ip", I_sub, EntryMetadata("BlocklistDE", "2025-02-02", 7), TRUE>>,
                <<"ip", I_bad, FeedMeta, TRUE>> } }
    \cup { [op |-> "remove", arg |-> v, ok |-> TRUE] : v \in {D_ec, I_4} }
    \cup { [op |-> "batch", arg |-> <<Row(D_sec, FeedMeta.date, FeedMeta.score, FeedMeta.source)>>,
            ok |-> o[1], loadok |-> o[2]] : o \in BatchOutcomes }
    \cup { [op |-> "reload", ok |-> TRUE] }

\* `with self._lock:` on a threading.RLock: free, or already held by this thread
acquire_NoLock(t) == lockHolder' = t

acquire(t) == lockHolder \in {0, t} /\ lockHolder' = t

\* the in-memory half of the call o on the memory m, and whether remove_entry found the value
WriterMutate(o, m) ==
    CASE o.op = "add" ->
            IF o.kind = "ip" /\ IpRaises(o.arg) THEN [m |-> m, removed |-> FALSE]
            ELSE [m |-> PutKind(o.kind, m, usePytricia, o.arg, o.meta), removed |-> FALSE]
      [] o.op = "remove" -> RemoveMem(m, o.arg)
      [] o.op = "batch" -> [m |-> PutDomains(m, o.arg), removed |-> FALSE]
      [] OTHER -> [m |-> EmptyMem, removed |-> FALSE]

\* the rest of the call o: the durable transaction, or the except branch
WriterFinish(o, r, d) ==
    CASE o.op = "add" ->
            IF o.kind = "ip" /\ IpRaises(o.arg) THEN [m |-> r.m, d |-> d]
            ELSE IF o.ok
            THEN [m |-> r.m,
                  d |-> [d EXCEPT ![o.kind] =
                            InsertOrReplace(@, Row(o.arg, o.meta.date, o.meta.score, o.meta.source))]]
            ELSE [m |-> RollbackKind(o.kind, r.m, o.arg), d |-> d]
      [] o.op = "remove" ->
            [m |-> r.m, d |-> IF r.removed /\ o.ok THEN DeleteEverywhere(d, o.arg) ELSE d]
      [] o.op = "batch" ->
            IF o.ok THEN [m |-> r.m, d |-> [d EXCEPT !.domain = InsertMany(@, o.arg)]]
            ELSE [m |-> IF o.loadok THEN load_domains_from_db(r.m, d.domain) ELSE r.m, d |-> d]
      [] OTHER -> [m |-> load_all_data(usePytricia, d, "none"), d |-> d]

\* the storage is constructed on an existing database file with two rows
InitWriters ==
    /\ usePytricia \in BOOLEAN
    /\ db = [domain |-> <<Row(D_ec, FeedMeta.date, FeedMeta.score, FeedMeta.source)>>,
             url |-> <<>>,
             ip |-> <<Row(I_4, FeedMeta.date, FeedMeta.score, FeedMeta.source)>>]
    /\ mem = load_all_data(usePytricia, db, "none")
    /\ lockHolder = 0
    /\ wpc \in [Writers -> {[at |-> "ready", o |-> o, removed |-> FALSE] : o \in WriterOps}]
    /\ last = [m |-> mem, d |-> db]
    /\ rd = [uncommitted |-> FALSE, missing |-> FALSE]
    /\ live = {}
    /\ removed = {}
    /\ budget = MaxWriters

\* thread t enters `with self._lock:` and performs the in-memory mutation
writer_begin(t) ==
    /\ wpc[t].at = "ready"
    /\ acquire(t)
    /\ LET Enter(r) ==
               /\ mem' = r.m
               /\ wpc' = [wpc EXCEPT ![t] = [@ EXCEPT !.at = "critical", !.removed = r.removed]]
       IN Enter(WriterMutate(wpc[t].o, mem))
    /\ budget' = budget - 1
    /\ UNCHANGED <<db, usePytricia, last, rd, live, removed>>

\* a with block that an exception leaves without releasing the lock
writer_end_KeepsLockOnError(t) ==
    /\ wpc[t].at = "critical"
    /\ LET Leave(s) == mem' = s.m /\ db' = s.d
       IN Leave(WriterFinish(wpc[t].o, [m |-> mem, removed |-> wpc[t].removed], db))
    /\ wpc' = [wpc EXCEPT ![t] = [@ EXCEPT !.at = "done"]]
    /\ lockHolder' = IF wpc[t].o.ok THEN 0 ELSE t
    /\ UNCHANGED <<usePytricia, last, rd, live, removed, budget>>

\* thread t commits, or rolls back and re-raises, and leaves the with block
writer_end(t) ==
    /\ wpc[t].at = "critical"
    /\ LET Leave(s) == mem' = s.m /\ db' = s.d
       IN Leave(WriterFinish(wpc[t].o, [m |-> mem, removed |-> wpc[t].removed], db))
    /\ wpc' = [wpc EXCEPT ![t] = [@ EXCEPT !.at = "done"]]
    /\ lockHolder' = 0
    /\ UNCHANGED <<usePytricia, last, rd, live, removed, budget>>

NextWriters ==
    \/ \E t \in Writers : writer_begin(t)
    \/ \E t \in Writers : writer_end(t)

SpecWriters == InitWriters /\ [][NextWriters]_vars

\* every thread is scheduled and the interpreter hands a free lock to a
\* waiting thread: a step that stays possible is taken
SpecWritersFair == SpecWriters /\ WF_vars(NextWriters)

----------------------------------------------------------------------------
(* The module-level functions called on their own: ip_to_int, then          *)
(* int_to_ip on its result; normalize_url, then normalize_url on its        *)
(* result.  wpc holds the argument of the first call, last the latest call. *)

MaxCalls == 2

\* arguments: dotted strings of three to five parts (first octet at most 127,
\* the other parts also above 255, negative or with a leading zero) and one
\* with a colon; URLs put together from scheme, host, path, query and fragment
PureInputs ==
    LET First == {<<"0">>, <<"1">>, <<"1","2","7">>}
        Part == {<<"0">>, <<"4">>, <<"2","5","5">>, <<"2","5","6">>, <<"-","1">>, <<"0","1">>}
        Quads == {a \o <<".">> \o b \o <<".">> \o c \o <<".">> \o d :
                    a \in First, b \in {<<"0">>, <<"2">>}, c \in Part, d \in Part}
        Others == {<<"1",".","2",".","3">>, <<"1",".","2",".","3",".","4",".","5">>, <<":",":","1">>, <<"1",":","2",".","3",".","4">>, <<"1",".","2",".","3",".","x">>, <<"1",".",".","3",".","4">>}
        Scheme == {<<>>, <<"h","t","t","p",":","/","/">>, <<"H","T","T","P",":","/","/">>}
        Host == {<<"e",".","c">>, <<"E",".","C">>, <<>>}
        Path == {<<>>, <<"/">>, <<"/","p">>, <<"/","p","/">>, <<"/","p","/","/">>, <<"/","/","x">>}
        Query == {<<>>, <<"?","u","t","m","_","s","o","u","r","c","e","=","s">>, <<"?","v","=","1">>, <<"?","u","t","m","_","m","e","d","i","u","m","=","e","&","v","=","1">>, <<"?","b","=","1","&","a","=","2","&","b","=","3">>}
        Fragment == {<<>>, <<"#","f">>}
        Urls == {s \o h \o p \o q \o f :
                    s \in Scheme, h \in Host, p \in Path, q \in Query, f \in Fragment}
        Examples == {<<"H","T","T","P",":","/","/","E","V","I","L",".","C","O","M","/">>, <<"h","t","t","p",":","/","/","e","v","i","l",".","c","o","m","/","?","u","t","m","_","s","o","u","r","c","e","=","s","p","a","m">>, <<"h","t","t","p",":","/","/","e","v","i","l",".","c","o","m","/","p","a","g","e","?","u","t","m","_","m","e","d","i","u","m","=","e","m","a","i","l","&","v","a","l","i","d","=","1">>, <<"h","t","t","p",":","/","/","e","v","i","l",".","c","o","m","/","p","a","t","h","/">>}
    IN [ip |-> Quads \cup Others, url |-> Urls \cup Examples]

InitPure ==
    /\ usePytricia = FALSE
    /\ db = EmptyDb
    /\ mem = EmptyMem
    /\ lockHolder = "none"
    /\ wpc \in {[op |-> "pure", kind |-> "ip", arg |-> x] : x \in PureInputs.ip}
               \cup {[op |-> "pure", kind |-> "url", arg |-> x] : x \in PureInputs.url}
    /\ last = NoOp
    /\ rd = [uncommitted |-> FALSE, missing |-> FALSE]
    /\ live = {}
    /\ removed = {}
    /\ budget = MaxCalls

\* one call of fn: on the argument, or on the result of the call before
pure_call(fn) ==
    /\ CASE fn = "ip_to_int" ->
              /\ wpc.kind = "ip" /\ last.op = "init"
              /\ last' = Completed(fn, wpc.arg, "ok", ip_to_int(wpc.arg))
              /\ UNCHANGED budget
         [] fn = "int_to_ip" ->
              /\ last.op = "ip_to_int" /\ last.res.some
              /\ last' = Completed(fn, last.res.val, "ok", int_to_ip(last.res.val))
              /\ UNCHANGED budget
         [] OTHER ->
              /\ wpc.kind = "url" /\ budget > 0
              /\ LET Call(url) == last' = Completed(fn, url, "ok", normalize_url(url))
                 IN Call(IF last.op = "init" THEN wpc.arg ELSE last.res)
              /\ budget' = budget - 1
    /\ UNCHANGED <<mem, db, usePytricia, lockHolder, wpc, rd, live, removed>>

NextPure == \E fn \in {"ip_to_int", "int_to_ip", "normalize_url"} : pure_call(fn)

SpecPure == InitPure /\ [][NextPure]_vars

----------------------------------------------------------------------------
(* Lookups with their metrics. In this specification rd holds the counters *)
(* of StorageMetrics (rd.metrics) and, as history, the number of is_*      *)
(* calls made (rd.calls) and of calls that returned True (rd.trues).       *)

\* the lookups counting an exact or suffix hit in both tier counters
lookup_CountsBothTiers(kind, v) ==
    /\ Sequential
    /\ LET update_metrics(mt, found) ==
               [mt EXCEPT !.total_lookups = @ + 1,
                          !.domain_lookups = IF kind = "domain" THEN @ + 1 ELSE @,
                          !.url_lookups = IF kind = "url" THEN @ + 1 ELSE @,
                          !.ip_lookups = IF kind = "ip" THEN @ + 1 ELSE @,
                          !.cache_hits = IF found THEN @ + 1 ELSE @,
                          !.cache_misses = IF found THEN @ ELSE @ + 1]
           Count(tier, found) ==
               update_metrics(
                   [rd.metrics EXCEPT !.hot_source_hits = IF tier # "miss" THEN @ + 1 ELSE @,
                                      !.cold_source_hits = IF tier # "miss" THEN @ + 1 ELSE @],
                   found)
           Return(tier, found) ==
               /\ rd' = [metrics |-> Count(tier, found),
                         calls |-> rd.calls + 1,
                         trues |-> rd.trues + (IF found THEN 1 ELSE 0),
                         ips_as_integers |-> rd.ips_as_integers]
               /\ last' = Completed("lookup", <<kind, v>>, "ok", found)
       IN Return(CASE kind = "domain" -> DomainTier(mem, v)
                   [] kind = "url" -> UrlTier(mem, v)
                   [] OTHER -> IpTier(mem, v),
                 LookupKind(kind, mem, usePytricia, v))
    /\ budget' = budget - 1
    /\ UNCHANGED <<mem, db, usePytricia, lockHolder, wpc, live, removed>>

\* the lookups with an _update_metrics that counts no miss
lookup_MissesUncounted(kind, v) ==
    /\ Sequential
    /\ LET update_metrics(mt, found) ==
               [mt EXCEPT !.total_lookups = @ + 1,
                          !.domain_lookups = IF kind = "domain" THEN @ + 1 ELSE @,
                          !.url_lookups = IF kind = "url" THEN @ + 1 ELSE @,
                          !.ip_lookups = IF kind = "ip" THEN @ + 1 ELSE @,
                          !.cache_hits = IF found THEN @ + 1 ELSE @,
                          !.cache_misses = @]
           Count(tier, found) ==
               update_metrics(
                   [rd.metrics EXCEPT !.hot_source_hits = IF tier = "hot" THEN @ + 1 ELSE @,
                                      !.cold_source_hits = IF tier = "cold" THEN @ + 1 ELSE @],
                   found)
           Return(tier, found) ==
               /\ rd' = [metrics |-> Count(tier, found),
                         calls |-> rd.calls + 1,
                         trues |-> rd.trues + (IF found THEN 1 ELSE 0),
                         ips_as_integers |-> rd.ips_as_integers]
               /\ last' = Completed("lookup", <<kind, v>>, "ok", found)
       IN Return(CASE kind = "domain" -> DomainTier(mem, v)
                   [] kind = "url" -> UrlTier(mem, v)
                   [] OTHER -> IpTier(mem, v),
                 LookupKind(kind, mem, usePytricia, v))
    /\ budget' = budget - 1
    /\ UNCHANGED <<mem, db, usePytricia, lockHolder, wpc, live, removed>>

\* is_domain_blacklisted, is_url_blacklisted, is_ip_blacklisted as called:
\* the tier counter of an exact or suffix hit, then _update_metrics
lookup(kind, v) ==
    /\ Sequential
    /\ LET update_metrics(mt, found) ==
               [mt EXCEPT !.total_lookups = @ + 1,
                          !.domain_lookups = IF kind = "domain" THEN @ + 1 ELSE @,
                          !.url_lookups = IF kind = "url" THEN @ + 1 ELSE @,
                          !.ip_lookups = IF kind = "ip" THEN @ + 1 ELSE @,
                          !.cache_hits = IF found THEN @ + 1 ELSE @,
                          !.cache_misses = IF found THEN @ ELSE @ + 1]
           Count(tier, found) ==
               update_metrics(
                   [rd.metrics EXCEPT !.hot_source_hits = IF tier = "hot" THEN @ + 1 ELSE @,
                                      !.cold_source_hits = IF tier = "cold" THEN @ + 1 ELSE @],
                   found)
           Return(tier, found) ==
               /\ rd' = [metrics |-> Count(tier, found),
                         calls |-> rd.calls + 1,
                         trues |-> rd.trues + (IF found THEN 1 ELSE 0),
                         ips_as_integers |-> rd.ips_as_integers]
               /\ last' = Completed("lookup", <<kind, v>>, "ok", found)
       IN Return(CASE kind = "domain" -> DomainTier(mem, v)
                   [] kind = "url" -> UrlTier(mem, v)
                   [] OTHER -> IpTier(mem, v),
                 LookupKind(kind, mem, usePytricia, v))
    /\ budget' = budget - 1
    /\ UNCHANGED <<mem, db, usePytricia, lockHolder, wpc, live, removed>>

\* a source lookup that drops the entry it looked up
source_of_Evicting(kind, v) ==
    /\ Sequential
    /\ last' = Completed("source_of", <<kind, v>>, "ok",
                         get_blacklist_source(kind, mem, usePytricia, v))
    /\ mem' = RemoveMem(mem, v).m
    /\ budget' = budget - 1
    /\ UNCHANGED <<db, usePytricia, lockHolder, wpc, rd, live, removed>>

\* get_domain_blacklist_source, get_url_blacklist_source, get_ip_blacklist_source as called
source_of(kind, v) ==
    /\ Sequential
    /\ last' = Completed("source_of", <<kind, v>>, "ok",
                         get_blacklist_source(kind, mem, usePytricia, v))
    /\ budget' = budget - 1
    /\ UNCHANGED <<mem, db, usePytricia, lockHolder, wpc, rd, live, removed>>

\* an empty store, or one that holds a hot and a cold entry of every kind and a range
InitMetrics ==
    /\ usePytricia \in BOOLEAN
    /\ db \in { EmptyDb,
                [domain |-> <<Row(D_ec, "2025-02-02", 7, "BlocklistDE"),
                              Row(D_sec, "2025-01-01", 9, "PhishTank")>>,
                 url |-> <<Row(U_p, "2025-01-01", 9, "PhishTank")>>,
                 ip |-> <<Row(I_4, "2025-02-02", 7, "BlocklistDE"),
                          Row(I_6, "2025-01-01", 9, "PhishTank"),
                          Row(I_net, "2025-01-01", 9, "PhishTank")>>] }
    /\ mem = load_all_data(usePytricia, db, "none")
    /\ lockHolder = "none"
    /\ wpc = Idle
    /\ last = NoOp
    /\ rd = ips_as_integers(
                [metrics |-> [total_lookups |-> 0, domain_lookups |-> 0, url_lookups |-> 0,
                              ip_lookups |-> 0, cache_hits |-> 0, cache_misses |-> 0,
                              hot_source_hits |-> 0, cold_source_hits |-> 0],
                 calls |-> 0, trues |-> 0, ips_as_integers |-> 0], db.ip)
    /\ live = {}
    /\ removed = {}
    /\ budget = MaxOps

NextMetrics ==
    \/ \E v \in DomainInputs \cup {<<"X",".","S",".","e",".","c">>, <<"x","e",".","c">>} :
          lookup("domain", v)
    \/ \E v \in UrlInputs \cup {<<"h","t","t","p",":","/","/","e",".","c","/","q">>} :
          lookup("url", v)
    \/ \E v \in IpInputs \cup {<<"1",".","9",".","9",".","9">>, <<"2",".","2",".","2",".","2">>,
                                <<"1",".","2",".","2",".","2","6","0">>} :
          lookup("ip", v)
    \/ \E kind \in {"domain", "url", "ip"} : \E v \in InputsOf(kind) : source_of(kind, v)
    \/ \E v \in DomainInputs, md \in Metas, dbok \in BOOLEAN :
          add_domain(v, md.date, md.score, md.source, dbok)
    \/ \E v \in UrlInputs, md \in Metas, dbok \in BOOLEAN :
          add_url(v, md.date, md.score, md.source, dbok)
    \/ \E v \in IpInputs, md \in Metas, dbok \in BOOLEAN :
          add_ip(v, md.date, md.score, md.source, dbok)
    \/ \E v \in Values, dbok \in BOOLEAN : remove_entry(v, dbok)
    \/ reload("none")

SpecMetrics == InitMetrics /\ [][NextMetrics]_vars

----------------------------------------------------------------------------
(* Several reader threads.  is_domain_blacklisted, is_url_blacklisted and   *)
(* is_ip_blacklisted take no lock, and neither does _update_metrics; each   *)
(* "counter += 1" reads the attribute and stores the sum as two steps,      *)
(* between which another thread may run.  wpc[t] is the position of thread  *)
(* t: the counters its call still has to increase, in the order of the      *)
(* code, and the value it has read of the first of them.                    *)

\* is_*_blacklisted up to its first counter: the indexes are consulted and
\* the counters to increase follow from the tier and the answer
lookup_begin(t, kind, v) ==
    /\ wpc[t] = Idle /\ budget > 0
    /\ LET Todo(tier, found) ==
               (CASE tier = "hot" -> <<"hot_source_hits">>
                  [] tier = "cold" -> <<"cold_source_hits">>
                  [] OTHER -> <<>>)
               \o <<"total_lookups",
                    CASE kind = "domain" -> "domain_lookups"
                      [] kind = "url" -> "url_lookups"
                      [] OTHER -> "ip_lookups",
                    IF found THEN "cache_hits" ELSE "cache_misses">>
           Start(tier, found) ==
               wpc' = [wpc EXCEPT ![t] = [op |-> "lookup", kind |-> kind, arg |-> v,
                                          found |-> found, todo |-> Todo(tier, found),
                                          loaded |-> <<>>]]
       IN Start(CASE kind = "domain" -> DomainTier(mem, v)
                  [] kind = "url" -> UrlTier(mem, v)
                  [] OTHER -> IpTier(mem, v),
                LookupKind(kind, mem, usePytricia, v))
    /\ budget' = budget - 1
    /\ UNCHANGED <<mem, db, usePytricia, lockHolder, last, rd, live, removed>>

\* "self.metrics.<counter> += 1", first half: the attribute is read
counter_load(t) ==
    /\ wpc[t] # Idle /\ wpc[t].loaded = <<>>
    /\ wpc' = [wpc EXCEPT ![t].loaded = <<rd.metrics[Head(wpc[t].todo)]>>]
    /\ UNCHANGED <<mem, db, usePytricia, lockHolder, last, rd, live, removed, budget>>

\* "self.metrics.<counter> += 1", second half: the sum is stored; after the
\* last counter the call returns
counter_store(t) ==
    /\ wpc[t] # Idle /\ wpc[t].loaded # <<>>
    /\ rd' = [rd EXCEPT !.metrics[Head(wpc[t].todo)] = wpc[t].loaded[1] + 1]
    /\ IF Len(wpc[t].todo) = 1
       THEN /\ wpc' = [wpc EXCEPT ![t] = Idle]
            /\ last' = Completed("lookup", <<wpc[t].kind, wpc[t].arg>>, "ok", wpc[t].found)
       ELSE /\ wpc' = [wpc EXCEPT ![t].todo = Tail(@), ![t].loaded = <<>>]
            /\ last' = last
    /\ UNCHANGED <<mem, db, usePytricia, lockHolder, live, removed, budget>>

\* a store that holds a hot domain, a cold domain and an address; no thread
\* has started and no thread holds the lock
InitReaders ==
    /\ usePytricia \in BOOLEAN
    /\ db = [domain |-> <<Row(D_ec, "2025-02-02", 7, "BlocklistDE"),
                          Row(D_sec, "2025-01-01", 9, "PhishTank")>>,
             url |-> <<>>,
             ip |-> <<Row(I_4, "2025-02-02", 7, "BlocklistDE")>>]
    /\ mem = load_all_data(usePytricia, db, "none")
    /\ lockHolder = 0
    /\ wpc = [t \in Writers |-> Idle]
    /\ last = NoOp
    /\ rd = [metrics |-> [total_lookups |-> 0, domain_lookups |-> 0, url_lookups |-> 0,
                          ip_lookups |-> 0, cache_hits |-> 0, cache_misses |-> 0,
                          hot_source_hits |-> 0, cold_source_hits |-> 0]]
    /\ live = {}
    /\ removed = {}
    /\ budget = MaxDeepOps

NextReaders ==
    \/ \E t \in Writers : \E v \in {D_ec, D_sec, <<"x","e",".","c">>} : lookup_begin(t, "domain", v)
    \/ \E t \in Writers : lookup_begin(t, "url", U_p)
    \/ \E t \in Writers : lookup_begin(t, "ip", I_4)
    \/ \E t \in Writers : counter_load(t)
    \/ \E t \in Writers : counter_store(t)

SpecReaders == InitReaders /\ [][NextReaders]_vars

----------------------------------------------------------------------------
(* The updates table.  In SpecAudit rd is the table and the clock of the   *)
(* store: rd.updates is the sequence of its rows in rowid order, rd.now is *)
(* CURRENT_TIMESTAMP at the last insert.  A filter argument is <<>> when   *)
(* it is not given and <<x>> when it is x.                                 *)

log_update_Overwrites(source, entry_count, dt) ==
    /\ Sequential
    /\ rd' = [updates |-> IF Len(rd.updates) = 0
                          THEN <<[timestamp |-> rd.now + dt, source |-> source,
                                  entry_count |-> entry_count]>>
                          ELSE [rd.updates EXCEPT ![Len(rd.updates)] =
                                   [timestamp |-> rd.now + dt, source |-> source,
                                    entry_count |-> entry_count]],
              now |-> rd.now + dt]
    /\ last' = Completed("log_update", <<source, entry_count>>, "ok", FALSE)
    /\ budget' = budget - 1
    /\ UNCHANGED <<mem, db, usePytricia, lockHolder, wpc, live, removed>>

\* log_update: one INSERT; the timestamp column defaults to CURRENT_TIMESTAMP,
\* dt is the time that passed since the last insert
log_update(source, entry_count, dt) ==
    /\ Sequential
    /\ rd' = [updates |-> Append(rd.updates, [timestamp |-> rd.now + dt, source |-> source,
                                              entry_count |-> entry_count]),
              now |-> rd.now + dt]
    /\ last' = Completed("log_update", <<source, entry_count>>, "ok", FALSE)
    /\ budget' = budget - 1
    /\ UNCHANGED <<mem, db, usePytricia, lockHolder, wpc, live, removed>>

get_update_history_IgnoresEnd(source, start, end) ==
    /\ Sequential
    /\ LET Where(i) ==
               /\ Len(source) > 0 => rd.updates[i].source = source[1]
               /\ Len(start) > 0 => rd.updates[i].timestamp >= start[1]
           Ordered(I) ==
               LET Rank(i) == Cardinality({j \in I :
                                  \/ rd.updates[j].timestamp < rd.updates[i].timestamp
                                  \/ rd.updates[j].timestamp = rd.updates[i].timestamp /\ j < i})
               IN [k \in 1..Cardinality(I) |-> rd.updates[CHOOSE i \in I : Rank(i) = k - 1]]
       IN last' = Completed("get_update_history", <<source, start, end>>, "ok",
                            Ordered({i \in 1..Len(rd.updates) : Where(i)}))
    /\ budget' = budget - 1
    /\ UNCHANGED <<mem, db, usePytricia, lockHolder, wpc, rd, live, removed>>

\* get_update_history: the WHERE parts of the arguments that are truthy,
\* ORDER BY timestamp; rows of one timestamp come in rowid order
get_update_history(source, start, end) ==
    /\ Sequential
    /\ LET Where(i) ==
               /\ Len(source) > 0 => rd.updates[i].source = source[1]
               /\ Len(start) > 0 => rd.updates[i].timestamp >= start[1]
               /\ Len(end) > 0 => rd.updates[i].timestamp <= end[1]
           Ordered(I) ==
               LET Rank(i) == Cardinality({j \in I :
                                  \/ rd.updates[j].timestamp < rd.updates[i].timestamp
                                  \/ rd.updates[j].timestamp = rd.updates[i].timestamp /\ j < i})
               IN [k \in 1..Cardinality(I) |-> rd.updates[CHOOSE i \in I : Rank(i) = k - 1]]
       IN last' = Completed("get_update_history", <<source, start, end>>, "ok",
                            Ordered({i \in 1..Len(rd.updates) : Where(i)}))
    /\ budget' = budget - 1
    /\ UNCHANGED <<mem, db, usePytricia, lockHolder, wpc, rd, live, removed>>

\* a store opened with an empty updates table, or with two rows of an earlier run
InitAudit ==
    /\ usePytricia \in BOOLEAN
    /\ db = EmptyDb
    /\ mem = load_all_data(usePytricia, db, "none")
    /\ lockHolder = "none"
    /\ wpc = Idle
    /\ last = NoOp
    /\ rd \in { [updates |-> <<>>, now |-> 0],
                [updates |-> << [timestamp |-> 0, source |-> "PhishTank", entry_count |-> 1],
                                [timestamp |-> 1, source |-> "BlocklistDE", entry_count |-> 1] >>,
                 now |-> 1] }
    /\ live = {}
    /\ removed = {}
    /\ budget = MaxDeepOps

NextAudit ==
    \/ \E source \in {"PhishTank", "BlocklistDE"}, dt \in 0..1 : log_update(source, 1000, dt)
    \/ \E source \in {<<>>} \cup {<<"PhishTank">>, <<"BlocklistDE">>},
          start, end \in {<<>>} \cup {<<t>> : t \in 0..MaxDeepOps} :
          get_update_history(source, start, end)
    \/ \E dbok \in BOOLEAN : add_domain(D_ec, FeedMeta.date, FeedMeta.score, FeedMeta.source, dbok)
    \/ \E b \in BatchesOf({D_sec}), o \in BatchOutcomes : add_domains(b, o[1], o[2])
    \/ \E dbok \in BOOLEAN : remove_entry(D_ec, dbok)
    \/ \E failAt \in {"none", "domain"} : reload(failAt)

SpecAudit == InitAudit /\ [][NextAudit]_vars

----------------------------------------------------------------------------
(* The check entry point of the interface adapter (section 4.7 of the      *)
(* specification).  Its result names the check that answered: "ip", "url", *)
(* "domain", or "invalid" for a value that is none of the three.           *)

check(value) ==
    /\ Sequential
    /\ LET Result(kind, hit, source) ==
               [kind |-> kind, blacklisted |-> hit, source |-> IF hit THEN source ELSE <<>>]
           \* a label: letters, digits and hyphens, no hyphen at either end
           Label(l) ==
               /\ Len(l) > 0
               /\ \A i \in 1..Len(l) : IsAlpha(l[i]) \/ IsDigit(l[i]) \/ l[i] = "-"
               /\ l[1] # "-" /\ l[Len(l)] # "-"
           Labels(ls) == Len(ls) >= 2 /\ \A i \in 1..Len(ls) : Label(ls[i])
           Url(host) ==
               IF is_url_blacklisted(mem, value)
               THEN Result("url", TRUE, get_blacklist_source("url", mem, usePytricia, value))
               ELSE Result("url", is_domain_blacklisted(mem, host),
                           get_blacklist_source("domain", mem, usePytricia, host))
       IN last' = Completed("check", value, "ok",
              IF ip_address(value).ok
              THEN Result("ip", is_ip_blacklisted(mem, usePytricia, value),
                          get_blacklist_source("ip", mem, usePytricia, value))
              ELSE IF \/ StartsWith(Lower(value), T_http \o <<":", "/", "/">>)
                      \/ StartsWith(Lower(value), T_http \o <<"s", ":", "/", "/">>)
                   THEN Url(urlparse(Lower(value)).netloc)
                   ELSE IF Labels(Split(value, "."))
                        THEN Result("domain", is_domain_blacklisted(mem, value),
                                    get_blacklist_source("domain", mem, usePytricia, value))
                        ELSE Result("invalid", FALSE, <<>>))
    /\ budget' = budget - 1
    /\ UNCHANGED <<mem, db, usePytricia, lockHolder, wpc, rd, live, removed>>

NextCheck ==
    \/ \E v \in Tabulated : check(v)
    \/ \E v \in { <<"e","c">>, <<"e",".",".","c">>, <<"-","e",".","c">>,
                  <<"f","t","p",":","/","/","e",".","c">> } : check(v)
    \/ \E v \in DomainInputs, dbok \in BOOLEAN :
          add_domain(v, FeedMeta.date, FeedMeta.score, FeedMeta.source, dbok)
    \/ \E v \in UrlInputs, dbok \in BOOLEAN :
          add_url(v, FeedMeta.date, FeedMeta.score, FeedMeta.source, dbok)
    \/ \E v \in IpInputs, dbok \in BOOLEAN :
          add_ip(v, FeedMeta.date, FeedMeta.score, FeedMeta.source, dbok)
    \/ \E v \in Values, dbok \in BOOLEAN : remove_entry(v, dbok)

SpecCheck == InitMetrics /\ [][NextCheck]_vars

----------------------------------------------------------------------------
(* What the durable store holds, stated on the rows *)

RowsOf(rows) == {rows[i] : i \in {j \in 1..Len(rows) : Len(rows[j].key) > 0}}
MetaOfRow(r) == EntryMetadata(r.source, r.date, r.score)

KeysOf(rows) == {r.key : r \in RowsOf(rows)}

\* the metadata of the row with the greatest rowid among those with a key in K
LastMeta(rows, K) ==
    LET I == {i \in 1..Len(rows) : rows[i].key \in K}
    IN MetaOfRow(rows[CHOOSE i \in I : \A j \in I : j <= i])

SingleIpRows(d) == {r \in RowsOf(d.ip) : ~IsCidr(r.key)}
CidrRows(d) == {r \in RowsOf(d.ip) : IsCidr(r.key) /\ ip_network(r.key).ok}


----------------------------------------------------------------------------
(* Claims *)

\* C1: when the durable commit of add_domain, add_url or add_ip fails, the
\* whole in-memory state after the call equals the state before the call.
C1_FailedAddRestoresMemory ==
    [][(last'.op \in {"add_domain", "add_url", "add_ip"} /\ last'.outcome = "db_error" /\ budget' = budget - 1)
          => mem' = mem]_vars

\* C2: after a failed add_domains / add_urls / add_ips the in-memory state of
\* that kind holds exactly what the durable store holds.
C2_FailedBatchMatchesStore ==
    /\ (last.op = "add_domains" /\ last.outcome = "db_error")
          => mem.domains = {Lower(r.key) : r \in RowsOf(db.domain)}
    /\ (last.op = "add_urls" /\ last.outcome = "db_error")
          => mem.urls = {normalize_url(r.key) : r \in RowsOf(db.url)}
    /\ (last.op = "add_ips" /\ last.outcome = "db_error")
          => /\ mem.ips = {r.key : r \in SingleIpRows(db)}
             /\ DOMAIN mem.cidr_metadata = {r.key : r \in CidrRows(db)}

\* C3: every entry present in memory has a durable row of the same kind whose
\* canonical key is the entry and whose source, date and score are the entry's.
C3_MemoryEntriesAreDurable ==
    /\ \A v \in mem.domains :
          /\ Has(mem.domain_meta, v)
          /\ \E r \in RowsOf(db.domain) :
                Lower(r.key) = v /\ MetaOfRow(r) = mem.domain_meta[v]
    /\ \A v \in mem.urls :
          /\ Has(mem.url_meta, v)
          /\ \E r \in RowsOf(db.url) :
                normalize_url(r.key) = v /\ MetaOfRow(r) = mem.url_meta[v]
    /\ \A n \in mem.ips_int :
          /\ Has(mem.ip_int_meta, n)
          /\ \E r \in SingleIpRows(db) :
                /\ ip_to_int(r.key).some /\ ip_to_int(r.key).val = n
                /\ MetaOfRow(r) = mem.ip_int_meta[n]
    /\ \A v \in mem.ips_str :
          /\ Has(mem.ip_meta, v)
          /\ \E r \in SingleIpRows(db) : r.key = v /\ MetaOfRow(r) = mem.ip_meta[v]
    /\ \A c \in DOMAIN mem.cidr_metadata :
          \E r \in CidrRows(db) : r.key = c /\ MetaOfRow(r) = mem.cidr_metadata[c]

\* C4: per kind, the hot and the cold shard are disjoint and their union is
\* the unified set.
C4_ShardsPartitionUnified ==
    /\ mem.hot_domains \cap mem.cold_domains = {}
    /\ mem.hot_domains \cup mem.cold_domains = mem.domains
    /\ mem.hot_urls \cap mem.cold_urls = {}
    /\ mem.hot_urls \cup mem.cold_urls = mem.urls
    /\ mem.hot_ips_int \cap mem.cold_ips_int = {}
    /\ mem.hot_ips_int \cup mem.cold_ips_int = mem.ips_int
    /\ mem.hot_ips_str \cap mem.cold_ips_str = {}
    /\ mem.hot_ips_str \cup mem.cold_ips_str = mem.ips_str

\* an exact entry of some kind in memory
ExactEntry(m, v) ==
    \/ ToLower(v) \in m.domains
    \/ NormalizeUrl(v) \in m.urls
    \/ v \in m.ips \/ v \in m.ips_str
    \/ (IpToInt(v).some /\ IpToInt(v).val \in m.ips_int)
    \/ Has(m.cidr_metadata, v)

\* C5: after a successful reload the in-memory state is the content of the
\* durable store: each unified set holds exactly the canonical forms of the
\* well-formed rows of its table, with the metadata of the row read last, the
\* shards follow the rows' sources and the CIDR structure holds the CIDR rows.
C5_ReloadEqualsStore ==
    (last.op = "reload" /\ last.outcome = "ok") =>
        /\ mem.domains = {Lower(r.key) : r \in RowsOf(db.domain)}
        /\ DOMAIN mem.domain_meta = mem.domains
        /\ \A v \in mem.domains :
              mem.domain_meta[v] = LastMeta(db.domain, {k \in KeysOf(db.domain) : Lower(k) = v})
        /\ mem.hot_domains =
              {Lower(r.key) : r \in {x \in RowsOf(db.domain) : x.source \in HOT_DOMAIN_SOURCES}}
        /\ mem.cold_domains =
              {Lower(r.key) : r \in {x \in RowsOf(db.domain) : x.source \notin HOT_DOMAIN_SOURCES}}
        /\ mem.urls = {normalize_url(r.key) : r \in RowsOf(db.url)}
        /\ DOMAIN mem.url_meta = mem.urls
        /\ \A v \in mem.urls :
              mem.url_meta[v] = LastMeta(db.url, {k \in KeysOf(db.url) : normalize_url(k) = v})
        /\ mem.hot_urls =
              {normalize_url(r.key) : r \in {x \in RowsOf(db.url) : x.source \in HOT_URL_SOURCES}}
        /\ mem.cold_urls =
              {normalize_url(r.key) : r \in {x \in RowsOf(db.url) : x.source \notin HOT_URL_SOURCES}}
        /\ mem.ips = {r.key : r \in SingleIpRows(db)}
        /\ mem.ips_int =
              {ip_to_int(r.key).val : r \in {x \in SingleIpRows(db) : ip_to_int(x.key).some}}
        /\ mem.ips_str = {r.key : r \in {x \in SingleIpRows(db) : ~ip_to_int(x.key).some}}
        /\ mem.hot_ips_int \cup mem.cold_ips_int = mem.ips_int
        /\ mem.hot_ips_str \cup mem.cold_ips_str = mem.ips_str
        /\ DOMAIN mem.ip_int_meta = mem.ips_int
        /\ \A n \in mem.ips_int :
              mem.ip_int_meta[n] =
                 LastMeta(db.ip, {k \in KeysOf(db.ip) : ~IsCidr(k) /\ ip_to_int(k).some /\ ip_to_int(k).val = n})
        /\ DOMAIN mem.ip_meta = mem.ips
        /\ \A v \in mem.ips : mem.ip_meta[v] = LastMeta(db.ip, {k \in KeysOf(db.ip) : k = v})
        /\ DOMAIN mem.cidr_metadata = {r.key : r \in CidrRows(db)}
        /\ \A c \in DOMAIN mem.cidr_metadata :
              mem.cidr_metadata[c] = LastMeta(db.ip, {k \in KeysOf(db.ip) : k = c})
        /\ IF usePytricia
           THEN /\ (DOMAIN mem.ipv4_cidr_tree) \cup (DOMAIN mem.ipv6_cidr_tree)
                      = {ip_network(r.key) : r \in CidrRows(db)}
                /\ mem.cidr_ranges = <<>>
           ELSE /\ {mem.cidr_ranges[i].network : i \in 1..Len(mem.cidr_ranges)}
                      = {ip_network(r.key) : r \in CidrRows(db)}
                /\ Len(mem.cidr_ranges) = Cardinality(CidrRows(db))
                /\ mem.ipv4_cidr_tree = <<>> /\ mem.ipv6_cidr_tree = <<>>

\* C5 witness: a successful reload has run over a table holding a row whose
\* spelling differs from its canonical form, and memory holds the canonical form
C5_Witness ==
    /\ last.op = "reload" /\ last.outcome = "ok"
    /\ \E r \in RowsOf(db.domain) : Lower(r.key) # r.key /\ Lower(r.key) \in mem.domains

\* C6: a value added successfully by add_domain / add_url / add_ip is reported
\* blacklisted for as long as it has not been removed and no reload has run.
C6_AddedStaysBlacklisted ==
    \A e \in live :
        CASE e[1] = "domain" -> is_domain_blacklisted(mem, e[2])
          [] e[1] = "url" -> is_url_blacklisted(mem, e[2])
          [] OTHER -> IsCidr(e[2]) \/ is_ip_blacklisted(mem, usePytricia, e[2])

\* C7 as stated: after remove_entry(v), is_domain(v), is_url(v) and is_ip(v)
\* are false, except for a removed CIDR entry.
C7_Original ==
    (last.op = "remove_entry") =>
        /\ ~is_domain_blacklisted(mem, last.arg)
        /\ ~is_url_blacklisted(mem, last.arg)
        /\ ((IsCidr(last.arg) /\ last.res) \/ ~is_ip_blacklisted(mem, usePytricia, last.arg))

\* C7 amended: after remove_entry(v), v is no exact entry of any kind:
\* is_url(v) is false, the lowercased v is in no domain set or shard, v is in
\* no exact IP set or shard; is_domain(v) can only be true through a stored
\* proper parent of v and is_ip(v) only through the CIDR structure.
C7_RemovedIsNoExactEntry ==
    (last.op = "remove_entry") =>
        LET v == last.arg
            ps == ParentsOf(Lower(v))
        IN /\ ~is_url_blacklisted(mem, v)
           /\ Lower(v) \notin (mem.domains \cup mem.hot_domains \cup mem.cold_domains)
           /\ is_domain_blacklisted(mem, v) => \E i \in 2..Len(ps) : ps[i] \in mem.domains
           /\ IpTier(mem, v) = "miss"
           /\ v \notin (mem.ips \cup mem.ips_str)
           /\ ~ExactEntry(mem, v)

\* C7 witness: remove_entry removed v and v is still blacklisted through its parent
C7_Witness ==
    /\ last.op = "remove_entry" /\ last.res
    /\ is_domain_blacklisted(mem, last.arg)

\* C8: once remove_entry(v) has returned True, a reload does not bring v back.
C8_RemovedStaysRemovedAfterReload ==
    (last.op = "reload" /\ last.outcome = "ok") => \A v \in removed : ~ExactEntry(mem, v)

\* C9: no reader sees the entry of an add whose durable commit then fails.
C9_FailedAddNeverVisible ==
    (wpc = Idle /\ last.op \in {"add_domain", "add_url", "add_ip"} /\ last.outcome = "db_error") => ~rd.uncommitted

\* C10: no reader finds a value of the durable store missing while reload runs.
C10_ReloadHidesNothing == ~rd.missing

\* C11: writers are mutually exclusive: never are two threads between the
\* in-memory mutation and the end of the commit or rollback of a writing
\* method, and while one thread is there no other thread takes a step, so
\* that the mutation and the commit are one step for every other writer.
C11_WritersAreExclusive ==
    /\ [](\A t, u \in Writers :
            (wpc[t].at = "critical" /\ wpc[u].at = "critical") => t = u)
    /\ [][\A t \in Writers :
            wpc[t].at = "critical" =>
                /\ lockHolder = t
                /\ \A u \in Writers \ {t} : wpc'[u] = wpc[u]]_vars

\* C11 witness: one thread has mutated the memory and not yet committed
\* while another thread has still to start its own write
C11_Witness ==
    \E t, u \in Writers :
        /\ wpc[t].at = "critical" /\ wpc[u].at = "ready"
        /\ lockHolder = t
        /\ mem # last.m

\* C12: when the threads have run add and remove operations on pairwise
\* disjoint keys, the final memory and the final rows of the store are those
\* of running the same operations one after another, in every order.
C12_DisjointOpsCommute ==
    LET Op(t) == wpc[t].o
        Disjoint(a, b) ==
            \A k \in {"domain", "url", "ip"} :
                ((a.op = "add" => a.kind = k) /\ (b.op = "add" => b.kind = k))
                    => ~SameEntry(k, a.arg, b.arg)
        Serial(s, o) ==
            LET Fin(r) == WriterFinish(o, r, s.d) IN Fin(WriterMutate(o, s.m))
        RECURSIVE Run(_, _, _)
        Run(s, p, i) == IF i > MaxWriters THEN s ELSE Run(Serial(s, Op(p[i])), p, i + 1)
        Orders == {p \in [Writers -> Writers] : \A i, j \in Writers : p[i] = p[j] => i = j}
        Same(f) ==
            /\ mem = f.m
            /\ \A k \in {"domain", "url", "ip"} : RowsOf(db[k]) = RowsOf(f.d[k])
    IN (/\ \A t \in Writers : wpc[t].at = "done" /\ Op(t).op \in {"add", "remove"}
        /\ \A t, u \in Writers : t # u => Disjoint(Op(t), Op(u)))
       => \A p \in Orders : Same(Run(last, p, 1))

\* C13: every lookup through the hot and the cold shard returns what the
\* same lookup returns on the unified set of its kind: is_domain on
\* _domains, is_url on _urls, the exact part of is_ip on _ips_int / _ips_str.
C13_TieringPreservesLookup ==
    \A v \in Tabulated :
        LET ps == parents_of[v]
            ip_int == IpToInt(v)
        IN /\ is_domain_blacklisted(mem, v) <=> \E i \in 1..Len(ps) : ps[i] \in mem.domains
           /\ is_url_blacklisted(mem, v) <=> NormalizeUrl(v) \in mem.urls
           /\ (IpTier(mem, v) # "miss")
                  <=> IF ip_int.some THEN ip_int.val \in mem.ips_int ELSE v \in mem.ips_str

\* C13 witness: one lookup is answered by a hot shard and another by a cold shard
C13_Witness ==
    /\ DomainTier(mem, D_sec) = "cold"
    /\ IpTier(mem, I_4) = "hot"
    /\ mem.hot_domains = {}

\* C14: is_domain(d) is true exactly when the lowercased d, or the lowercased
\* d with one or more leading labels removed, is in the domain set; a stored
\* domain covers its subdomains whatever their case, and a name that ends
\* with the same characters without a label boundary is not covered.
C14_DomainMatchesLabelSuffix ==
    \A d \in Tabulated :
        LET LabelSuffixes(x) ==
                {x} \cup {SubSeq(x, i + 1, Len(x)) : i \in {j \in 1..Len(x) : x[j] = "."}}
        IN is_domain_blacklisted(mem, d)
               <=> \E s \in LabelSuffixes(Lower(d)) : s \in mem.domains

\* C14 witness: only e.c is stored; X.S.e.c is blacklisted through it, xe.c is not
C14_Witness ==
    /\ mem.domains = {D_ec}
    /\ is_domain_blacklisted(mem, <<"X",".","S",".","e",".","c">>)
    /\ ~is_domain_blacklisted(mem, <<"x","e",".","c">>)

\* C15: for every address a, is_ip(a) is true exactly when a is an exact IP
\* entry or a lies inside a stored CIDR range of its address family, with
\* the radix tree as with the fallback list.
C15_IpMatchesExactOrCidr ==
    \A a \in {v \in Tabulated : IpAddress(v).ok} :
        LET Exact(ip_int) ==
                IF ip_int.some THEN ip_int.val \in mem.ips_int ELSE a \in mem.ips_str
            Inside(c) == IpNetwork(c).ok /\ Covers(IpNetwork(c), IpNetwork(a))
        IN is_ip_blacklisted(mem, usePytricia, a)
               <=> (Exact(IpToInt(a)) \/ \E c \in DOMAIN mem.cidr_metadata : Inside(c))

\* C16: is_ip(addr) is false for every addr that does not parse as an IPv4
\* or IPv6 address, whatever the index holds.
C16_UnparseableIsNotBlacklisted ==
    \A a \in {v \in Tabulated : ~IpAddress(v).ok} : ~is_ip_blacklisted(mem, usePytricia, a)

\* C17: ip_to_int returns (a<<24)|(b<<16)|(c<<8)|d, a non-negative value,
\* for a string of exactly four parts that are octets in 0..255 and holds
\* no ':', and None for every other string.
C17_PacksOctetsOrRejects ==
    (last.op = "ip_to_int") =>
        LET parts == Split(last.arg, ".")
            IsOctet(p) ==
                Len(p) >= 1 /\ (\A i \in 1..Len(p) : IsDigit(p[i])) /\ DecVal(p) <= 255
            Packed == DecVal(parts[1]) * Pow2(24) + DecVal(parts[2]) * Pow2(16)
                        + DecVal(parts[3]) * 256 + DecVal(parts[4])
        IN IF /\ ~Contains(last.arg, ":")
              /\ Len(parts) = 4
              /\ \A i \in 1..4 : IsOctet(parts[i])
           THEN last.res = [some |-> TRUE, val |-> Packed] /\ last.res.val >= 0
           ELSE ~last.res.some

\* C18: int_to_ip gives back every string that ip_to_int accepted, and no
\* other string packs to the same integer.
C18_PackedFormIsBijective ==
    /\ (last.op = "int_to_ip") => last.res = wpc.arg
    /\ (last.op = "ip_to_int" /\ last.res.some) =>
           \A y \in PureInputs.ip : ip_to_int(y) = last.res => y = wpc.arg

\* C19: normalize_url returns a string, and called on its own result it
\* returns that result unchanged.
C19_NormalizeIsIdempotent ==
    (last.op = "normalize_url") =>
        /\ DOMAIN last.res = 1..Len(last.res)
        /\ (budget <= MaxCalls - 2) => last.res = last.arg

\* C20: normalize_url lowercases, drops the fragment, strips one trailing
\* '/' from a path other than '/', and drops the tracking parameters keeping
\* the others in order: the four examples of the documentation, a path that
\* ends in two slashes, and a query whose keys alternate.
C20_NormalizeAsDocumented ==
    (last.op = "normalize_url" /\ budget = MaxCalls - 1) =>
        /\ (last.arg = <<"H","T","T","P",":","/","/","E","V","I","L",".","C","O","M","/">>)
              => last.res = <<"h","t","t","p",":","/","/","e","v","i","l",".","c","o","m">>
        /\ (last.arg = <<"h","t","t","p",":","/","/","e","v","i","l",".","c","o","m","/","?","u","t","m","_","s","o","u","r","c","e","=","s","p","a","m">>)
              => last.res = <<"h","t","t","p",":","/","/","e","v","i","l",".","c","o","m">>
        /\ (last.arg = <<"h","t","t","p",":","/","/","e","v","i","l",".","c","o","m","/","p","a","g","e","?","u","t","m","_","m","e","d","i","u","m","=","e","m","a","i","l","&","v","a","l","i","d","=","1">>)
              => last.res = <<"h","t","t","p",":","/","/","e","v","i","l",".","c","o","m","/","p","a","g","e","?","v","a","l","i","d","=","1">>
        /\ (last.arg = <<"h","t","t","p",":","/","/","e","v","i","l",".","c","o","m","/","p","a","t","h","/">>)
              => last.res = <<"h","t","t","p",":","/","/","e","v","i","l",".","c","o","m","/","p","a","t","h">>
        /\ (last.arg = <<"h","t","t","p",":","/","/","e",".","c","/","p","/","/">>)
              => last.res = <<"h","t","t","p",":","/","/","e",".","c","/","p","/">>
        /\ (last.arg = <<"h","t","t","p",":","/","/","e",".","c","/","p","?","b","=","1","&","a","=","2","&","b","=","3">>)
              => last.res = <<"h","t","t","p",":","/","/","e",".","c","/","p","?","b","=","1","&","a","=","2","&","b","=","3">>
        /\ ~Contains(last.res, "#")

\* C21: is_url(u) is true exactly when the canonical form of u is in the URL
\* set; after a successful add_url(w) every u with the canonical form of w is
\* blacklisted, and an add_url or add_urls changes the answer for no URL of
\* another canonical form and for no domain.
C21_UrlMatchesCanonicalForm ==
    /\ [](\A u \in Tabulated : is_url_blacklisted(mem, u) <=> NormalizeUrl(u) \in mem.urls)
    /\ [][/\ (last'.op = "add_url" /\ budget' = budget - 1) =>
                \A u \in Tabulated :
                    IF NormalizeUrl(u) = NormalizeUrl(last'.arg)
                    THEN last'.outcome = "ok" => is_url_blacklisted(mem', u)
                    ELSE is_url_blacklisted(mem', u) = is_url_blacklisted(mem, u)
            /\ (last'.op \in {"add_url", "add_urls"} /\ budget' = budget - 1) =>
                \A d \in Tabulated :
                    is_domain_blacklisted(mem', d) = is_domain_blacklisted(mem, d)]_vars

C21_Witness ==
    /\ last.op = "add_url" /\ last.outcome = "ok" /\ last.arg = U_p
    /\ is_url_blacklisted(mem, U_ps)
    /\ is_url_blacklisted(mem, <<"H","T","T","P",":","/","/","E",".","C","/","p">>)
    /\ is_url_blacklisted(mem, <<"h","t","t","p",":","/","/","e",".","c","/","p","?","u","t","m","_","s","o","u","r","c","e","=","s">>)
    /\ ~is_url_blacklisted(mem, <<"h","t","t","p",":","/","/","e",".","c","/","q">>)
    /\ ~is_domain_blacklisted(mem, D_ec)
    /\ mem.urls = {U_p}

\* C22: adding is an idempotent upsert on the key: after a successful add of k
\* followed by a successful add of the same k, the durable store holds one row
\* for k with the second metadata, the source lookup answers the second source,
\* k is in the shard of the second source only, get_source_counts counts k
\* under the second source only, and with equal metadata the second add
\* changes neither memory nor the store.
C22_AddIsIdempotentUpsert ==
    [][(/\ last.op \in {"add_domain", "add_url", "add_ip"} /\ last.outcome = "ok"
        /\ last'.op = last.op /\ last'.arg = last.arg /\ last'.outcome = "ok"
        /\ budget' = budget - 1) =>
       LET kind == CASE last.op = "add_domain" -> "domain"
                     [] last.op = "add_url" -> "url"
                     [] OTHER -> "ip"
           k == last.arg
           m1 == MetaOfRow(db[kind][Len(db[kind])])
           m2 == MetaOfRow(db'[kind][Len(db'[kind])])
           Sharded(hot, cold, key, HOT) ==
               /\ key \in hot <=> m2.source \in HOT
               /\ key \in cold <=> m2.source \notin HOT
           Observable(m) == [m EXCEPT !.cidr_ranges = {@[i] : i \in 1..Len(@)}]
           Alone == /\ mem.domains \cup DOMAIN mem.domain_meta
                          \subseteq (IF kind = "domain" THEN {ToLower(k)} ELSE {})
                    /\ mem.urls \cup DOMAIN mem.url_meta
                          \subseteq (IF kind = "url" THEN {NormalizeUrl(k)} ELSE {})
                    /\ mem.ips \cup mem.ips_str \cup DOMAIN mem.ip_meta
                          \cup DOMAIN mem.cidr_metadata
                          \subseteq (IF kind = "ip" THEN {k} ELSE {})
                    /\ mem.ips_int \cup DOMAIN mem.ip_int_meta
                          \subseteq (IF kind = "ip" /\ IpToInt(k).some
                                     THEN {IpToInt(k).val} ELSE {})
       IN /\ Cardinality({i \in 1..Len(db'[kind]) : SameEntry(kind, db'[kind][i].key, k)}) = 1
          /\ (kind = "ip" /\ IsCidr(k))
               \/ get_blacklist_source(kind, mem', usePytricia, k) = <<m2.source>>
          /\ CASE kind = "domain" ->
                     Sharded(mem'.hot_domains, mem'.cold_domains, ToLower(k), HOT_DOMAIN_SOURCES)
               [] kind = "url" ->
                     Sharded(mem'.hot_urls, mem'.cold_urls, NormalizeUrl(k), HOT_URL_SOURCES)
               [] kind = "ip" /\ IpToInt(k).some ->
                     Sharded(mem'.hot_ips_int, mem'.cold_ips_int, IpToInt(k).val, HOT_IP_SOURCES)
               [] kind = "ip" /\ ~IsCidr(k) ->
                     Sharded(mem'.hot_ips_str, mem'.cold_ips_str, k, HOT_IP_SOURCES)
               [] OTHER -> TRUE
          /\ Alone => DOMAIN get_source_counts(mem') = {m2.source}
          /\ m1 = m2 => Observable(mem') = Observable(mem) /\ db' = db]_vars

\* C23: get_domain_blacklist_source(d) answers the source of the longest
\* label-suffix of d that is in the domain set (d itself first, then the
\* nearer parent), and None exactly when no label-suffix of d is in the set;
\* after a successful add_domain(k) the answer for k is the source just added.
C23_SourceOfMostSpecificSuffix ==
    /\ [](\A d \in Tabulated :
            LET ps == parents_of[d]
                I == {i \in 1..Len(ps) : ps[i] \in mem.domains}
                first == CHOOSE i \in I : \A j \in I : i <= j
                src == get_blacklist_source("domain", mem, usePytricia, d)
            IN IF I = {} THEN src = <<>>
               ELSE /\ Has(mem.domain_meta, ps[first])
                    /\ src = <<mem.domain_meta[ps[first]].source>>)
    /\ [][(last'.op = "add_domain" /\ last'.outcome = "ok" /\ budget' = budget - 1) =>
            get_blacklist_source("domain", mem', usePytricia, last'.arg)
                = <<db'.domain[Len(db'.domain)].source>>]_vars

C23_Witness ==
    /\ last.op = "add_domain" /\ last.outcome = "ok" /\ last.arg = D_sec
    /\ get_blacklist_source("domain", mem, usePytricia, D_ec) = <<"PhishTank">>
    /\ get_blacklist_source("domain", mem, usePytricia, D_sec) = <<"BlocklistDE">>
    /\ get_blacklist_source("domain", mem, usePytricia, <<"X",".","S",".","e",".","c">>)
          = <<"BlocklistDE">>
    /\ get_blacklist_source("domain", mem, usePytricia, <<"x","e",".","c">>) = <<>>

C25_CountsEachEntryOnce ==
    LET Of(f, K, s) == Cardinality({k \in K \cap DOMAIN f : f[k].source = s})
        Once(s) == Of(mem.domain_meta, mem.domains, s) + Of(mem.url_meta, mem.urls, s)
                     + Of(mem.ip_int_meta, mem.ips_int, s) + Of(mem.ip_meta, mem.ips_str, s)
                     + Of(mem.cidr_metadata, DOMAIN mem.cidr_metadata, s)
        counts == get_source_counts(mem)
    IN /\ count_entries(mem) = Cardinality(mem.domains) + Cardinality(mem.urls)
                                  + Cardinality(mem.ips_int) + Cardinality(mem.ips_str)
                                  + Cardinality(DOMAIN mem.cidr_metadata)
       /\ \A md \in Metas :
             Once(md.source) = IF md.source \in DOMAIN counts THEN counts[md.source] ELSE 0

\* C26: after any sequence of successful writes of instance A, an instance B
\* that loads the same database file answers is_domain, is_url and is_ip as A
\* does for every value, and B's count_entries() and get_source_counts() equal
\* A's.
C26_SecondInstanceAgrees ==
    LET Agree(B) ==
            /\ \A v \in Tabulated :
                  /\ is_domain_blacklisted(B, v) = is_domain_blacklisted(mem, v)
                  /\ is_url_blacklisted(B, v) = is_url_blacklisted(mem, v)
                  /\ is_ip_blacklisted(B, usePytricia, v) = is_ip_blacklisted(mem, usePytricia, v)
            /\ count_entries(B) = count_entries(mem)
            /\ get_source_counts(B) = get_source_counts(mem)
    IN Agree(load_all_data(usePytricia, db, "none"))

\* C27: when reload() fails while reading a durable table, the error is
\* surfaced and memory is left empty: every unified set, shard, metadata map
\* and CIDR structure is empty, whichever table failed.
C27_FailedReloadLeavesEmpty ==
    (last.op = "reload" /\ last.outcome = "db_error") => mem = EmptyMem

\* C28: the queries are total: in every state of the index and for every input
\* string is_domain, is_url and is_ip answer a boolean and the source lookups a
\* source or None, none of them raises, and a query changes neither the index
\* nor the durable store.
C28_QueriesAreTotal ==
    /\ [](\A kind \in {"domain", "url", "ip"}, v \in Tabulated :
            LET Source(s) == s = <<>> \/ (Len(s) = 1 /\ s[1] \in {md.source : md \in Metas})
            IN /\ LookupKind(kind, mem, usePytricia, v) \in BOOLEAN
               /\ Source(get_blacklist_source(kind, mem, usePytricia, v)))
    /\ [][(last'.op \in {"lookup", "source_of"} /\ budget' = budget - 1) =>
            last'.outcome = "ok" /\ mem' = mem /\ db' = db]_vars

C28_Witness ==
    /\ last.op = "lookup"
    /\ last.arg = <<"ip", <<"1",".","2",".","2",".","2","6","0">>>>
    /\ Has(mem.cidr_metadata, I_net)
    /\ budget = 0

\* C29: a lookup probes the hot shard before the cold one (for a domain every
\* label-suffix against hot, then every one against cold; for an address the
\* exact hot and cold shards before the CIDR ranges), and a lookup that finds
\* an exact or suffix entry increments exactly one of hot_source_hits and
\* cold_source_hits, the one of the shard where it found the entry; a CIDR hit
\* and a miss increment neither.
C29_HotFirstOneTierCounted ==
    [][(last'.op = "lookup" /\ budget' = budget - 1) =>
        LET kind == last'.arg[1]
            v == last'.arg[2]
            ps == parents_of[v]
            In(domains, urls, ips_int, ips_str) ==
                CASE kind = "domain" -> \E i \in 1..Len(ps) : ps[i] \in domains
                  [] kind = "url" -> NormalizeUrl(v) \in urls
                  [] OTHER -> IF IpToInt(v).some THEN IpToInt(v).val \in ips_int
                              ELSE v \in ips_str
            InHot == In(mem.hot_domains, mem.hot_urls, mem.hot_ips_int, mem.hot_ips_str)
            InCold == In(mem.cold_domains, mem.cold_urls, mem.cold_ips_int, mem.cold_ips_str)
        IN /\ rd'.metrics.hot_source_hits
                = rd.metrics.hot_source_hits + (IF InHot THEN 1 ELSE 0)
           /\ rd'.metrics.cold_source_hits
                = rd.metrics.cold_source_hits + (IF ~InHot /\ InCold THEN 1 ELSE 0)
           /\ (InHot \/ InCold) => last'.res]_vars

C29_Witness ==
    /\ last.op = "lookup" /\ last.arg = <<"domain", D_ec>> /\ last.res
    /\ D_ec \in mem.cold_domains /\ D_sec \in mem.hot_domains
    /\ rd.metrics.domain_lookups = 2
    /\ rd.metrics.hot_source_hits = 1
    /\ rd.metrics.cold_source_hits = 1

\* C30: after any sequence of lookups total_lookups is the number of is_*
\* calls made and equals domain_lookups + url_lookups + ip_lookups and
\* cache_hits + cache_misses; cache_hits is the number of calls that returned
\* True; hot_source_hits + cold_source_hits is at most cache_hits; write
\* operations and source lookups leave the counters unchanged.
C30_CountersAddUp ==
    /\ [](LET mt == rd.metrics
          IN /\ mt.total_lookups = rd.calls
             /\ mt.total_lookups = mt.domain_lookups + mt.url_lookups + mt.ip_lookups
             /\ mt.total_lookups = mt.cache_hits + mt.cache_misses
             /\ mt.cache_hits = rd.trues
             /\ mt.hot_source_hits + mt.cold_source_hits <= mt.cache_hits)
    /\ [][IF last'.op = "lookup" /\ budget' = budget - 1
          THEN rd'.metrics.cache_hits = rd.metrics.cache_hits + (IF last'.res THEN 1 ELSE 0)
          ELSE rd'.metrics = rd.metrics]_vars

C30_Witness ==
    /\ rd.calls = 2 /\ rd.trues = 1
    /\ rd.metrics.domain_lookups = 1 /\ rd.metrics.ip_lookups = 1
    /\ rd.metrics.cache_hits = 1 /\ rd.metrics.cache_misses = 1
    /\ rd.metrics.hot_source_hits = 0 /\ rd.metrics.cold_source_hits = 0

\* C31: get_update_history(source, start, end) returns exactly the rows of the
\* updates table that match every filter that is given (source equal,
\* timestamp >= start, timestamp <= end), in ascending timestamp order, a row
\* logged earlier before a row logged later.
C31_HistoryIsFilteredLogInOrder ==
    last.op = "get_update_history" =>
        LET Matches(r) ==
                /\ last.arg[1] = <<>> \/ r.source = last.arg[1][1]
                /\ last.arg[2] = <<>> \/ ~(r.timestamp < last.arg[2][1])
                /\ last.arg[3] = <<>> \/ ~(r.timestamp > last.arg[3][1])
        IN /\ last.res = SelectSeq(rd.updates, Matches)
           /\ \A k, l \in 1..Len(last.res) : k < l => last.res[k].timestamp <= last.res[l].timestamp

\* a query with all three filters that keeps one row and leaves out a row for
\* each of the three reasons
C31_Witness ==
    /\ last.op = "get_update_history"
    /\ Len(last.arg[1]) = 1 /\ Len(last.arg[2]) = 1 /\ Len(last.arg[3]) = 1
    /\ Len(last.res) = 1
    /\ \E i \in 1..Len(rd.updates) : rd.updates[i].source # last.arg[1][1]
    /\ \E i \in 1..Len(rd.updates) : /\ rd.updates[i].source = last.arg[1][1]
                                     /\ rd.updates[i].timestamp < last.arg[2][1]
    /\ \E i \in 1..Len(rd.updates) : /\ rd.updates[i].source = last.arg[1][1]
                                     /\ rd.updates[i].timestamp > last.arg[3][1]

\* C32: the updates table is append-only and only log_update writes it: a
\* log_update(source, n) appends one row with that source and count and leaves
\* the rows before it as they were; no add, batch add, remove or reload,
\* successful or failed, changes the table.
C32_AuditLogIsAppendOnly ==
    [][ IF last'.op = "log_update"
        THEN /\ Len(rd'.updates) = Len(rd.updates) + 1
             /\ SubSeq(rd'.updates, 1, Len(rd.updates)) = rd.updates
             /\ rd'.updates[Len(rd'.updates)].source = last'.arg[1]
             /\ rd'.updates[Len(rd'.updates)].entry_count = last'.arg[2]
        ELSE rd'.updates = rd.updates ]_vars

\* a reload has failed after a row was logged in this run
C32_Witness ==
    /\ last.op = "reload" /\ last.outcome = "db_error"
    /\ Len(rd.updates) = 3
    /\ mem # load_all_data(usePytricia, db, "none")

C34_FailedRemoveRollsBack ==
    [][ (last'.op = "remove_entry" /\ last'.outcome = "db_error") =>
            /\ mem' = mem
            /\ ExactEntry(mem', last'.arg) ]_vars

\* C37: after remove_entry(c) of a stored CIDR c and a successful reload, no
\* address is blacklisted and no source is returned because of c alone, with
\* the radix tree and with the fallback list: an address inside c that no
\* other row covers is not blacklisted and has no source, and an address that
\* is still blacklisted has a row of its own.
C37_RemovedCidrGoneAfterReload ==
    [][ ( /\ last.op = "remove_entry" /\ last.arg = I_net /\ last.res = TRUE
          /\ last'.op = "reload" /\ last'.outcome = "ok" ) =>
            /\ ~is_ip_blacklisted(mem', usePytricia, <<"1",".","9",".","9",".","9">>)
            /\ get_blacklist_source("ip", mem', usePytricia, <<"1",".","9",".","9",".","9">>) = <<>>
            /\ DOMAIN mem'.cidr_metadata = {} /\ mem'.cidr_ranges = <<>>
            /\ DOMAIN mem'.ipv4_cidr_tree = {}
            /\ \A ip \in {I_4, I_6} :
                  is_ip_blacklisted(mem', usePytricia, ip) => ip \in KeysOf(db'.ip) ]_vars

\* the seeded store after its range was removed and memory reloaded: the two
\* addresses stored on their own are still blacklisted, one of them inside
\* the removed range
C37_Witness ==
    /\ last.op = "reload" /\ last.outcome = "ok"
    /\ KeysOf(db.ip) = {I_4, I_6}
    /\ is_ip_blacklisted(mem, usePytricia, I_4)
    /\ ~is_ip_blacklisted(mem, usePytricia, <<"1",".","9",".","9",".","9">>)

\* C35: every writer that acquires the index lock releases it, on success and
\* on every failure path (a failed durable write, a CIDR that does not parse,
\* a failure in the reload that follows a failed batch); the thread that
\* holds the lock is never blocked by it; and no call waits forever: a thread
\* that has a call to make completes it.
C35_LockIsAlwaysReleased ==
    \A t \in Writers :
        /\ (lockHolder = t) ~> (lockHolder # t)
        /\ (wpc[t].at = "ready") ~> (wpc[t].at = "done")

\* a batch whose write and whose recovery reload both failed has completed,
\* and so has an add of an unparseable CIDR; the lock is free
C35_Witness ==
    \E t, u \in Writers :
        /\ wpc[t].at = "done" /\ wpc[t].o.op = "batch" /\ ~wpc[t].o.ok /\ ~wpc[t].o.loadok
        /\ wpc[u].at = "done" /\ wpc[u].o.op = "add" /\ wpc[u].o.arg = I_bad
        /\ lockHolder = 0

\* C36: a malformed row (an empty key, a CIDR that does not parse) met during a
\* reload is skipped: the reload completes, every well-formed row is loaded
\* and the skipped rows contribute nothing to any structure, so that memory is
\* what a reload of the store without the malformed rows gives.
C36_MalformedRowsAreSkipped ==
    (last.op = "reload" /\ last.outcome = "ok") =>
        LET HasKey(r) == Len(r.key) > 0
            WellFormed(r) == Len(r.key) > 0 /\ (IsCidr(r.key) => ip_network(r.key).ok)
            Clean == [domain |-> SelectSeq(db.domain, HasKey), url |-> SelectSeq(db.url, HasKey),
                      ip |-> SelectSeq(db.ip, WellFormed)]
        IN /\ mem = load_all_data(usePytricia, Clean, "none")
           /\ \A i \in 1..Len(Clean.domain) : Lower(Clean.domain[i].key) \in mem.domains
           /\ \A i \in 1..Len(Clean.url) : normalize_url(Clean.url[i].key) \in mem.urls
           /\ \A i \in 1..Len(Clean.ip) :
                 IF IsCidr(Clean.ip[i].key) THEN Has(mem.cidr_metadata, Clean.ip[i].key)
                 ELSE Clean.ip[i].key \in mem.ips
           /\ <<>> \notin mem.domains \cup mem.urls \cup mem.ips \cup mem.ips_str
           /\ ~Has(mem.cidr_metadata, I_bad)
           /\ Len(mem.cidr_ranges) + Cardinality(DOMAIN mem.ipv4_cidr_tree)
                 = Cardinality({Clean.ip[i].key : i \in {j \in 1..Len(Clean.ip) : IsCidr(Clean.ip[j].key)}})

\* a reload of a store that holds the unparseable CIDR row and a well-formed
\* CIDR row
C36_Witness ==
    /\ last.op = "reload" /\ last.outcome = "ok"
    /\ \E i \in 1..Len(db.ip) : db.ip[i].key = I_bad
    /\ Has(mem.cidr_metadata, I_net)

\* C38: in every reachable state, for every value and every kind, the source
\* query of the kind returns a source exactly when the lookup of the kind
\* answers true.
C38_SourceIffBlacklisted ==
    \A kind \in {"domain", "url", "ip"} : \A v \in InputsOf(kind) \cup {<<"1",".","9",".","9",".","9">>} :
        (get_blacklist_source(kind, mem, usePytricia, v) # <<>>)
            <=> LookupKind(kind, mem, usePytricia, v)

\* C39: the ips_as_integers metric equals the number of IPv4 entries held in
\* packed-integer form, also after add_ip, add_ips and remove_entry
C39_IpsAsIntegersMatches ==
    rd.ips_as_integers = Cardinality(mem.ips_int)

\* C40: under any interleaving of concurrent lookups the metric counters are
\* updated with the index lock held and no counter ever decreases
C40_CountersLockedAndMonotonic ==
    [][\A c \in DOMAIN rd.metrics :
           /\ rd'.metrics[c] >= rd.metrics[c]
           /\ rd'.metrics[c] # rd.metrics[c] => lockHolder # 0]_vars

====
